---- MODULE Spec2Model ----
(***************************************************************************)
(* Model of the DTO resolution engine of nest-openapi-code-generator:      *)
(* ControllerGenerator (inline response registry), DtoGenerator            *)
(* (generateAllDtosSplit / generateDtos and their helpers) and             *)
(* DtoImporter.resolveDtoImports.                                          *)
(*                                                                         *)
(* Strings are sequences of one-character strings, so that concatenation,  *)
(* suffix stripping, substring tests and case conversion are computed.     *)
(* Optional JavaScript fields are sequences of length 0 (absent) or 1.     *)
(* A JavaScript Map / Set is a sequence in insertion order.                *)
(***************************************************************************)
EXTENDS Integers, Sequences, FiniteSets, TLC

----------------------------------------------------------------------------
(* Strings *)

Lower == <<"a","b","c","d","e","f","g","h","i","j","k","l","m",
           "n","o","p","q","r","s","t","u","v","w","x","y","z">>
Upper == <<"A","B","C","D","E","F","G","H","I","J","K","L","M",
           "N","O","P","Q","R","S","T","U","V","W","X","Y","Z">>
Digits == <<"0","1","2","3","4","5","6","7","8","9">>

Range(s) == { s[i] : i \in DOMAIN s }

\* String.prototype.toUpperCase on one character
toUpperCaseChar(c) ==
    IF \E i \in DOMAIN Lower : Lower[i] = c
    THEN Upper[CHOOSE i \in DOMAIN Lower : Lower[i] = c]
    ELSE c

toLowerCaseChar(c) ==
    IF \E i \in DOMAIN Upper : Upper[i] = c
    THEN Lower[CHOOSE i \in DOMAIN Upper : Upper[i] = c]
    ELSE c

\* String.prototype.toUpperCase
toUpperCase(s) == [i \in DOMAIN s |-> toUpperCaseChar(s[i])]

\* name.charAt(0).toUpperCase() + name.slice(1)
capitalize(s) == IF s = <<>> THEN <<>>
                 ELSE <<toUpperCaseChar(s[1])>> \o Tail(s)

\* s.endsWith(suffix)
endsWith(s, suffix) ==
    /\ Len(s) >= Len(suffix)
    /\ SubSeq(s, Len(s) - Len(suffix) + 1, Len(s)) = suffix

\* s.includes(sub)
includes(s, sub) ==
    \E i \in 1..(Len(s) - Len(sub) + 1) : SubSeq(s, i, i + Len(sub) - 1) = sub

\* s.replace(/<suffix>$/, '')
stripSuffix(s, suffix) ==
    IF endsWith(s, suffix) THEN SubSeq(s, 1, Len(s) - Len(suffix)) ELSE s

\* parseInt on a string of decimal digits
RECURSIVE parseInt(_)
parseInt(s) ==
    IF s = <<>> THEN 0
    ELSE 10 * parseInt(SubSeq(s, 1, Len(s) - 1))
         + ((CHOOSE i \in DOMAIN Digits : Digits[i] = s[Len(s)]) - 1)

\* Set.prototype.add on an insertion-ordered set
SetAdd(s, x) == IF x \in Range(s) THEN s ELSE Append(s, x)

\* Map.prototype.has / get / set on an insertion-ordered map of
\* [key, value] entries; set on an existing key keeps its position
MapHas(m, k) == \E i \in DOMAIN m : m[i].key = k
MapGet(m, k) == m[CHOOSE i \in DOMAIN m : m[i].key = k].value
MapSet(m, k, v) ==
    IF MapHas(m, k)
    THEN [i \in DOMAIN m |-> IF m[i].key = k THEN [key |-> k, value |-> v] ELSE m[i]]
    ELSE Append(m, [key |-> k, value |-> v])
MapKeys(m) == [i \in DOMAIN m |-> m[i].key]

Dto == <<"D","t","o">>
Item == <<"I","t","e","m">>
EnumSuffix == <<"E","n","u","m">>
ResponseDto == <<"R","e","s","p","o","n","s","e">> \o Dto
ArraySuffix == <<"[","]">>
Unknown == <<"U","n","k","n","o","w","n">>

t_any == <<"a","n","y">>
t_void == <<"v","o","i","d">>
t_string == <<"s","t","r","i","n","g">>
t_number == <<"n","u","m","b","e","r">>
t_integer == <<"i","n","t","e","g","e","r">>
t_boolean == <<"b","o","o","l","e","a","n">>
t_object == <<"o","b","j","e","c","t">>
t_array == <<"a","r","r","a","y">>

----------------------------------------------------------------------------
(* Schema nodes *)

\* A schema node with every optional field absent
NoSchema == [type |-> <<>>, properties |-> <<>>, required |-> <<>>,
             ref |-> <<>>, items |-> <<>>, enum |-> <<>>,
             allOf |-> <<>>, xShared |-> FALSE]

\* schema.properties is truthy; Object.entries(schema.properties)
hasProperties(schema) == schema.properties # <<>>
entries(schema) == schema.properties[1]
keys(schema) == [i \in DOMAIN entries(schema) |-> entries(schema)[i].key]

\* schema.$ref.split('/').pop()
refName(schema) == schema.ref[Len(schema.ref)]

StringSchema == [NoSchema EXCEPT !.type = t_string]
NumberSchema == [NoSchema EXCEPT !.type = t_number]
EnumSchema(values) == [NoSchema EXCEPT !.type = t_string, !.enum = <<values>>]
RefSchema(n) == [NoSchema EXCEPT !.ref =
                   <<<<"#">>, <<"c","o","m","p","o","n","e","n","t","s">>,
                     <<"s","c","h","e","m","a","s">>, n>>]
ArraySchema(it) == [NoSchema EXCEPT !.type = t_array, !.items = <<it>>]
ObjectSchema(props, req) ==
    [NoSchema EXCEPT !.type = t_object, !.properties = <<props>>, !.required = req]
Prop(k, v) == [key |-> k, value |-> v]

----------------------------------------------------------------------------
(* DtoImporter *)

\* DtoImporter.isSharedSchema
isSharedSchema(schema) == schema.xShared = TRUE

\* DtoImporter.getSharedDtoNames: names of the x-shared component schemas
getSharedDtoNames(spec) ==
    SelectSeq([i \in DOMAIN spec |->
                 IF isSharedSchema(spec[i].value) THEN spec[i].key \o Dto ELSE <<>>],
              LAMBDA n : n # <<>>)

\* resolveDtoImports that also keeps the shared names in the local bucket
resolveDtoImports_localAll(usedDtos, spec) ==
    [localDtos      |-> usedDtos,
     sharedDtosUsed |-> SelectSeq(usedDtos,
                                  LAMBDA d : d \in Range(getSharedDtoNames(spec)))]

\* DtoImporter.resolveDtoImports: usedDtos in iteration order
resolveDtoImports(usedDtos, spec) ==
    LET sharedDtos == getSharedDtoNames(spec) IN
    [localDtos      |-> SelectSeq(usedDtos, LAMBDA d : d \notin Range(sharedDtos)),
     sharedDtosUsed |-> SelectSeq(usedDtos, LAMBDA d : d \in Range(sharedDtos))]

----------------------------------------------------------------------------
(* DtoGenerator: structural matching *)

\* UTF-16 code unit order of the characters that occur in names
CharOrder == <<"#", "-">> \o Digits \o Upper \o <<"[", "]", "_">> \o Lower
charCode(c) == CHOOSE i \in DOMAIN CharOrder : CharOrder[i] = c

\* a < b in the default (code unit) order of Array.prototype.sort
RECURSIVE strLess(_, _)
strLess(a, b) ==
    IF b = <<>> THEN FALSE
    ELSE IF a = <<>> THEN TRUE
    ELSE IF a[1] # b[1] THEN charCode(a[1]) < charCode(b[1])
    ELSE strLess(Tail(a), Tail(b))

\* insert x into the sorted sequence s
RECURSIVE sortInsert(_, _)
sortInsert(s, x) ==
    IF s = <<>> THEN <<x>>
    ELSE IF strLess(x, s[1]) THEN <<x>> \o s
    ELSE <<s[1]>> \o sortInsert(Tail(s), x)

\* Array.prototype.sort() without comparator
RECURSIVE sort(_)
sort(s) == IF s = <<>> THEN <<>> ELSE sortInsert(sort(Tail(s)), s[1])

\* schemasMatch that compares the property names in declaration order
schemasMatch_unsorted(schema1, schema2) ==
    IF ~hasProperties(schema1) \/ ~hasProperties(schema2) THEN FALSE
    ELSE keys(schema1) = keys(schema2)

\* DtoGenerator.schemasMatch
schemasMatch(schema1, schema2) ==
    IF ~hasProperties(schema1) \/ ~hasProperties(schema2) THEN FALSE
    ELSE LET every(props1, props2) ==
                 IF Len(props1) # Len(props2) THEN FALSE
                 ELSE \A index \in DOMAIN props1 : props1[index] = props2[index]
         IN  every(sort(keys(schema1)), sort(keys(schema2)))

\* DtoGenerator.findMatchingExistingDto; <<>> is null
findMatchingExistingDto(schema, spec) ==
    IF \E i \in DOMAIN spec : schemasMatch(schema, spec[i].value)
    THEN spec[CHOOSE i \in DOMAIN spec :
                /\ schemasMatch(schema, spec[i].value)
                /\ \A j \in 1..(i-1) : ~schemasMatch(schema, spec[j].value)].key \o Dto
    ELSE <<>>

\* schema.type === 'object' && schema.properties && !schema.$ref
isInlineObject(schema) ==
    schema.type = t_object /\ hasProperties(schema) /\ schema.ref = <<>>

----------------------------------------------------------------------------
(* DtoGenerator: type resolution *)

\* DtoGenerator.getEnumName
getEnumName(propertyName) == capitalize(propertyName) \o EnumSuffix

\* getTypeScriptType without the circular reference check of a $ref
RECURSIVE getTypeScriptType_noSelfCheck(_, _, _, _, _)
getTypeScriptType_noSelfCheck(schema, spec, imports, currentDtoName, propertyName) ==
    IF schema.ref # <<>> THEN
        [type |-> refName(schema) \o Dto,
         imports |-> SetAdd(imports, refName(schema) \o Dto)]
    ELSE IF schema.type = t_string THEN
        [type |-> IF schema.enum # <<>> THEN getEnumName(propertyName) ELSE t_string,
         imports |-> imports]
    ELSE IF schema.type \in {t_number, t_integer} THEN
        [type |-> t_number, imports |-> imports]
    ELSE IF schema.type = t_boolean THEN
        [type |-> t_boolean, imports |-> imports]
    ELSE IF schema.type = t_array THEN
        IF schema.items # <<>> THEN
            LET items == schema.items[1]
                ofMatch(r, matchingDtoName) ==
                    IF matchingDtoName # <<>>
                    THEN [type |-> matchingDtoName \o ArraySuffix,
                          imports |-> SetAdd(r.imports, matchingDtoName)]
                    ELSE [type |-> t_object \o ArraySuffix, imports |-> r.imports]
                ofItems(r) ==
                    IF isInlineObject(items)
                    THEN ofMatch(r, findMatchingExistingDto(items, spec))
                    ELSE [type |-> r.type \o ArraySuffix, imports |-> r.imports]
            IN  ofItems(getTypeScriptType_noSelfCheck(items, spec, imports,
                                                      currentDtoName, <<>>))
        ELSE [type |-> t_any \o ArraySuffix, imports |-> imports]
    ELSE IF schema.type = t_object THEN
        [type |-> t_object, imports |-> imports]
    ELSE [type |-> t_any, imports |-> imports]

\* DtoGenerator.getTypeScriptType; the result carries the imports set
RECURSIVE getTypeScriptType(_, _, _, _, _)
getTypeScriptType(schema, spec, imports, currentDtoName, propertyName) ==
    IF schema.ref # <<>> THEN
        LET dtoName == refName(schema) \o Dto IN
        IF currentDtoName # <<>> /\ dtoName = currentDtoName
        THEN [type |-> t_any, imports |-> imports]
        ELSE [type |-> dtoName, imports |-> SetAdd(imports, dtoName)]
    ELSE IF schema.type = t_string THEN
        [type |-> IF schema.enum # <<>> THEN getEnumName(propertyName) ELSE t_string,
         imports |-> imports]
    ELSE IF schema.type \in {t_number, t_integer} THEN
        [type |-> t_number, imports |-> imports]
    ELSE IF schema.type = t_boolean THEN
        [type |-> t_boolean, imports |-> imports]
    ELSE IF schema.type = t_array THEN
        IF schema.items # <<>> THEN
            LET items == schema.items[1]
                ofMatch(r, matchingDtoName) ==
                    IF matchingDtoName # <<>>
                    THEN [type |-> matchingDtoName \o ArraySuffix,
                          imports |-> SetAdd(r.imports, matchingDtoName)]
                    ELSE [type |-> t_object \o ArraySuffix, imports |-> r.imports]
                ofItems(r) ==
                    IF isInlineObject(items)
                    THEN ofMatch(r, findMatchingExistingDto(items, spec))
                    ELSE [type |-> r.type \o ArraySuffix, imports |-> r.imports]
            IN  ofItems(getTypeScriptType(items, spec, imports, currentDtoName, <<>>))
        ELSE [type |-> t_any \o ArraySuffix, imports |-> imports]
    ELSE IF schema.type = t_object THEN
        [type |-> t_object, imports |-> imports]
    ELSE [type |-> t_any, imports |-> imports]

\* currentDtoName?.replace(/Dto$/, '') || 'Unknown'
parentTypeName(currentDtoName) ==
    IF stripSuffix(currentDtoName, Dto) = <<>> THEN Unknown
    ELSE stripSuffix(currentDtoName, Dto)

\* inlineType that synthesizes a nested name inside response DTOs too
inlineType_noResponseCheck(name, schema, spec, imports, currentDtoName, suffix) ==
    LET named(dtoName) == [type |-> dtoName, imports |-> SetAdd(imports, dtoName)]
        ofMatch(matchingDtoName) ==
            IF matchingDtoName # <<>> THEN named(matchingDtoName)
            ELSE named(parentTypeName(currentDtoName) \o capitalize(name) \o suffix)
    IN  ofMatch(findMatchingExistingDto(schema, spec))

\* the type of an inline object (or inline array item) and the imports set
\* after it: structural match, 'any' inside a response DTO, or the
\* synthesized name (processProperty lines 217-237 and 307-325)
inlineType(name, schema, spec, imports, currentDtoName, suffix) ==
    LET named(dtoName) == [type |-> dtoName, imports |-> SetAdd(imports, dtoName)]
        ofMatch(matchingDtoName) ==
            IF matchingDtoName # <<>> THEN named(matchingDtoName)
            ELSE IF currentDtoName # <<>> /\ includes(currentDtoName, ResponseDto)
            THEN [type |-> t_any, imports |-> imports]
            ELSE named(parentTypeName(currentDtoName) \o capitalize(name) \o suffix)
    IN  ofMatch(findMatchingExistingDto(schema, spec))

\* optionalDecorators that never marks a property optional
optionalDecorators_never(isRequired) == <<>>

\* if (!isRequired) decorators.push('@IsOptional()')
optionalDecorators(isRequired) ==
    IF ~isRequired THEN <<"@IsOptional()">> ELSE <<>>

\* DtoGenerator.processProperty: name, type, required flag and the
\* required-ness decorator of the property (its type-specific validation
\* and @ApiProperty decorators are left out), and the imports set after it
processProperty(name, schema, isRequired, spec, imports, currentDtoName) ==
    LET \* the decorator chain: string / number / boolean come before array
        arrayBranch == /\ schema.type = t_array
                       /\ schema.items # <<>>
        items == schema.items[1]
        result(r) ==
            [property |-> [name |-> IF isRequired THEN name ELSE name \o <<"?">>,
                           type |-> r.type,
                           required |-> isRequired,
                           decorators |-> optionalDecorators(isRequired)],
             imports |-> r.imports]
        \* the @ApiProperty item type resolves schema.items once more
        apiProperty(r) ==
            result(IF arrayBranch
                   THEN [type |-> r.type,
                         imports |-> getTypeScriptType(items, spec, r.imports,
                                                       currentDtoName, <<>>).imports]
                   ELSE r)
        arrayItems(ri) == inlineType(name, items, spec, ri.imports,
                                     currentDtoName, Item \o Dto)
        arrayOf(rj) == [type |-> rj.type \o ArraySuffix, imports |-> rj.imports]
        array(r, ri) ==
            IF isInlineObject(items) THEN arrayOf(arrayItems(ri))
            ELSE [type |-> r.type, imports |-> ri.imports]
        decorators(r) ==
            apiProperty(IF arrayBranch
                        THEN array(r, getTypeScriptType(items, spec, r.imports,
                                                        currentDtoName, <<>>))
                        ELSE r)
        inline(r) ==
            decorators(IF isInlineObject(schema)
                       THEN inlineType(name, schema, spec, r.imports,
                                       currentDtoName, Dto)
                       ELSE r)
    IN  inline(getTypeScriptType(schema, spec, imports, currentDtoName, name))

\* DtoGenerator.processSchema
RECURSIVE processSchemaLoop(_, _, _, _, _, _)
processSchemaLoop(dtoName, schema, spec, i, properties, imports) ==
    IF i > Len(entries(schema)) THEN [properties |-> properties, imports |-> imports]
    ELSE LET propName == entries(schema)[i].key
             next(r) == processSchemaLoop(dtoName, schema, spec, i + 1,
                                          Append(properties, r.property), r.imports)
         IN  next(processProperty(propName, entries(schema)[i].value,
                                  propName \in Range(schema.required),
                                  spec, imports, dtoName))

processSchema(dtoName, schema, spec) ==
    LET dto(r) == [name |-> dtoName, properties |-> r.properties,
                   imports |-> r.imports]
    IN  dto(IF hasProperties(schema)
            THEN processSchemaLoop(dtoName, schema, spec, 1, <<>>, <<>>)
            ELSE [properties |-> <<>>, imports |-> <<>>])

----------------------------------------------------------------------------
(* DtoGenerator: allOf, nested schemas, enums *)

\* { ...a, ...b } on property maps
RECURSIVE spread(_, _)
spread(a, b) ==
    IF b = <<>> THEN a ELSE spread(MapSet(a, b[1].key, b[1].value), Tail(b))

\* Array.from(new Set([...a, ...b]))
RECURSIVE unionSeq(_, _)
unionSeq(a, b) == IF b = <<>> THEN a ELSE unionSeq(SetAdd(a, b[1]), Tail(b))

\* DtoGenerator.mergeAllOf
RECURSIVE mergeAllOf(_)
RECURSIVE mergeAllOfLoop(_, _, _)
\* the loop of mergeAllOf where the earlier member wins a collision
mergeAllOfLoop_earlierWins(allOf, i, merged) ==
    IF i > Len(allOf) THEN merged
    ELSE LET required(resolved, m) ==
                 [m EXCEPT !.required = unionSeq(unionSeq(<<>>, m.required),
                                                 resolved.required)]
             properties(resolved) ==
                 required(resolved,
                          IF hasProperties(resolved)
                          THEN [merged EXCEPT !.properties =
                                  <<spread(entries(resolved), merged.properties[1])>>]
                          ELSE merged)
         IN  mergeAllOfLoop(allOf, i + 1, properties(mergeAllOf(allOf[i])))

mergeAllOfLoop(allOf, i, merged) ==
    IF i > Len(allOf) THEN merged
    ELSE LET \* an absent required list is falsy; the model keeps absent as <<>>
             required(resolved, m) ==
                 [m EXCEPT !.required = unionSeq(unionSeq(<<>>, m.required),
                                                 resolved.required)]
             properties(resolved) ==
                 required(resolved,
                          IF hasProperties(resolved)
                          THEN [merged EXCEPT !.properties =
                                  <<spread(merged.properties[1], entries(resolved))>>]
                          ELSE merged)
         IN  mergeAllOfLoop(allOf, i + 1, properties(mergeAllOf(allOf[i])))

mergeAllOf(schema) ==
    IF schema.allOf = <<>> THEN schema
    ELSE mergeAllOfLoop(schema.allOf[1], 1, ObjectSchema(<<>>, <<>>))

\* DtoGenerator.collectNestedDtoSchemas
RECURSIVE collectNestedDtoSchemas(_, _, _, _)
RECURSIVE collectNestedLoop(_, _, _, _, _)
collectNestedLoop(schema, nestedDtoSchemas, spec, parentDtoName, i) ==
    IF i > Len(entries(schema)) THEN nestedDtoSchemas
    ELSE
    LET propName == entries(schema)[i].key
        raw == entries(schema)[i].value
        ref == IF raw.ref # <<>> THEN raw.ref
               ELSE IF raw.items # <<>> THEN raw.items[1].ref ELSE <<>>
        fieldName == capitalize(propName)
        nest(nested, inlineDtoName, inlineSchema) ==
            collectNestedDtoSchemas(inlineSchema,
                                    MapSet(nested, inlineDtoName, inlineSchema),
                                    spec, inlineDtoName)
        arrayItems(prop, nested) ==
            IF /\ prop.type = t_array
               /\ prop.items # <<>>
               /\ isInlineObject(prop.items[1])
               /\ findMatchingExistingDto(prop.items[1], spec) = <<>>
            THEN nest(nested,
                      parentTypeName(parentDtoName) \o fieldName \o Item \o Dto,
                      prop.items[1])
            ELSE nested
        inline(prop) ==
            arrayItems(prop,
                IF isInlineObject(prop) /\ findMatchingExistingDto(prop, spec) = <<>>
                THEN nest(nestedDtoSchemas,
                          parentTypeName(parentDtoName) \o fieldName \o Dto, prop)
                ELSE nestedDtoSchemas)
    IN  collectNestedLoop(schema, inline(IF ref # <<>> THEN mergeAllOf(raw) ELSE raw),
                          spec, parentDtoName, i + 1)

collectNestedDtoSchemas(schema, nestedDtoSchemas, spec, parentDtoName) ==
    IF ~hasProperties(schema) THEN nestedDtoSchemas
    ELSE collectNestedLoop(schema, nestedDtoSchemas, spec, parentDtoName, 1)

\* value.toUpperCase().replace(/[^A-Z0-9]/g, '_')
enumKey(value) ==
    [i \in DOMAIN value |->
        IF toUpperCaseChar(value[i]) \in Range(Upper) \cup Range(Digits)
        THEN toUpperCaseChar(value[i]) ELSE "_"]

enumValues(values) ==
    [i \in DOMAIN values |-> [key |-> enumKey(values[i]), value |-> values[i]]]

\* addEnums that pushes every definition, seen before or not
addEnums_noDedup(enums, more) == enums \o more

\* forEach(e => { if (!enumNames.has(e.name)) { enumNames.add(e.name); push } })
RECURSIVE addEnums(_, _)
addEnums(enums, more) ==
    IF more = <<>> THEN enums
    ELSE addEnums(IF \E j \in DOMAIN enums : enums[j].name = more[1].name
                  THEN enums ELSE Append(enums, more[1]),
                  Tail(more))

\* DtoGenerator.collectEnumsForTemplate.  A schema node is identified by
\* its path below the schema of the top-level call; the result carries the
\* visited set
RECURSIVE collectEnumsForTemplate(_, _, _)
RECURSIVE collectEnumsLoop(_, _, _, _, _)
collectEnumsLoop(schema, path, i, enums, visited) ==
    IF i > Len(entries(schema)) THEN [enums |-> enums, visited |-> visited]
    ELSE
    LET propName == entries(schema)[i].key
        prop == entries(schema)[i].value
        propPath == Append(path, i)
        itemsPath == Append(propPath, 0)
        push(e, more) == [enums |-> addEnums(e, more.enums), visited |-> more.visited]
        next(r) == collectEnumsLoop(schema, path, i + 1, r.enums, r.visited)
        arrayItems(r) ==
            next(IF /\ prop.type = t_array
                    /\ prop.items # <<>>
                    /\ prop.items[1].type = t_object
                    /\ hasProperties(prop.items[1])
                    /\ itemsPath \notin r.visited
                 THEN push(r.enums,
                           collectEnumsForTemplate(prop.items[1], itemsPath, r.visited))
                 ELSE r)
        nested(e) ==
            arrayItems(IF /\ prop.type = t_object
                          /\ hasProperties(prop)
                          /\ propPath \notin visited
                       THEN push(e, collectEnumsForTemplate(prop, propPath, visited))
                       ELSE [enums |-> e, visited |-> visited])
    IN  nested(IF prop.enum # <<>> /\ prop.type = t_string
               THEN addEnums(enums, <<[name |-> getEnumName(propName),
                                       values |-> enumValues(prop.enum[1])]>>)
               ELSE enums)

collectEnumsForTemplate(schema, path, visited) ==
    IF path \in visited THEN [enums |-> <<>>, visited |-> visited]
    ELSE IF hasProperties(schema)
    THEN collectEnumsLoop(schema, path, 1, <<>>, visited \cup {path})
    ELSE [enums |-> <<>>, visited |-> visited \cup {path}]

----------------------------------------------------------------------------
(* DtoGenerator: one DTO, topological sort *)

\* DtoGenerator.processAndCollectDto (enumNames is the set of names in allEnums)
processAndCollectDto(dtoName, rawSchema, spec, st, collectNested) ==
    LET register(schema, dtoSchema) ==
            [st EXCEPT
                !.allDtos = MapSet(@, dtoName, dtoSchema),
                !.dependencies = MapSet(@, dtoName, dtoSchema.imports),
                !.nestedDtoSchemas =
                    IF collectNested
                    THEN collectNestedDtoSchemas(schema, @, spec, dtoName)
                    ELSE @]
        enums(schema, st1) ==
            [st1 EXCEPT !.allEnums =
                addEnums(@, collectEnumsForTemplate(schema, <<>>, {}).enums)]
        process(schema) ==
            enums(schema,
                  IF schema.enum = <<>>
                  THEN register(schema, processSchema(dtoName, schema, spec))
                  ELSE st)
    IN  process(IF rawSchema.allOf # <<>> THEN mergeAllOf(rawSchema) ELSE rawSchema)

\* DtoGenerator.topologicalSort: visit returns result, visited and visiting
RECURSIVE visit(_, _, _)
RECURSIVE visitDeps(_, _, _, _)
visitDeps(dependencies, deps, i, st) ==
    IF i > Len(deps) THEN st
    ELSE visitDeps(dependencies, deps, i + 1,
                   IF MapHas(dependencies, deps[i])
                   THEN visit(dependencies, deps[i], st) ELSE st)

\* visit that never marks a node as visited
visit_noVisited(dependencies, node, st) ==
    IF node \in st.visiting THEN st
    ELSE LET deps == IF MapHas(dependencies, node)
                     THEN MapGet(dependencies, node) ELSE <<>>
             leave(s1) == [result |-> Append(s1.result, node),
                           visited |-> s1.visited,
                           visiting |-> s1.visiting \ {node}]
         IN  leave(visitDeps(dependencies, deps, 1,
                             [st EXCEPT !.visiting = @ \cup {node}]))

visit(dependencies, node, st) ==
    IF node \in st.visiting THEN st
    ELSE IF node \in st.visited THEN st
    ELSE LET deps == IF MapHas(dependencies, node)
                     THEN MapGet(dependencies, node) ELSE <<>>
             leave(s1) == [result |-> Append(s1.result, node),
                           visited |-> s1.visited \cup {node},
                           visiting |-> s1.visiting \ {node}]
         IN  leave(visitDeps(dependencies, deps, 1,
                             [st EXCEPT !.visiting = @ \cup {node}]))

\* topologicalSort that returns the keys in insertion order
topologicalSort_insertionOrder(dependencies) == MapKeys(dependencies)

RECURSIVE topologicalSortLoop(_, _, _)
topologicalSortLoop(dependencies, i, st) ==
    IF i > Len(dependencies) THEN st
    ELSE topologicalSortLoop(dependencies, i + 1,
                             visit(dependencies, dependencies[i].key, st))

topologicalSort(dependencies) ==
    topologicalSortLoop(dependencies, 1,
                        [result |-> <<>>, visited |-> {}, visiting |-> {}]).result

----------------------------------------------------------------------------
(* DtoGenerator: generateDtos and generateAllDtosSplit *)

\* one processAndCollectDto call of a pass; origins records, for every name
\* the call registers in allDtos, the loop that registered it
collectStep(dtoName, schema, spec, st, collectNested, origin) ==
    LET record(st1) ==
            [st1 EXCEPT !.origins =
                IF ~MapHas(st.allDtos, dtoName) /\ MapHas(st1.allDtos, dtoName)
                THEN Append(@, [key |-> dtoName, value |-> origin]) ELSE @]
    IN  record(processAndCollectDto(dtoName, schema, spec, st, collectNested))

\* secondPass that processes an inline response schema whatever is registered
RECURSIVE secondPass_noHasCheck(_, _, _, _)
secondPass_noHasCheck(inlineSchemas, spec, i, st) ==
    IF i > Len(inlineSchemas) THEN st
    ELSE secondPass_noHasCheck(inlineSchemas, spec, i + 1,
                    collectStep(inlineSchemas[i].key, inlineSchemas[i].value,
                                spec, st, TRUE, "inline"))

\* first pass: every component schema of the call
RECURSIVE firstPass(_, _, _, _)
firstPass(schemas, spec, i, st) ==
    IF i > Len(schemas) THEN st
    ELSE firstPass(schemas, spec, i + 1,
                   collectStep(schemas[i].key \o Dto, schemas[i].value, spec, st,
                               TRUE, "component"))

\* second pass: the inline response schemas whose name is not registered
RECURSIVE secondPass(_, _, _, _)
secondPass(inlineSchemas, spec, i, st) ==
    IF i > Len(inlineSchemas) THEN st
    ELSE secondPass(inlineSchemas, spec, i + 1,
                    IF ~MapHas(st.allDtos, inlineSchemas[i].key)
                    THEN collectStep(inlineSchemas[i].key, inlineSchemas[i].value,
                                     spec, st, TRUE, "inline")
                    ELSE st)

\* thirdPass that resolves no nested schema
thirdPass_skip(spec, i, st) == st

\* third pass: the nested schemas whose name is not registered
RECURSIVE thirdPass(_, _, _)
thirdPass(spec, i, st) ==
    IF i > Len(st.nestedDtoSchemas) THEN st
    ELSE thirdPass(spec, i + 1,
                   IF ~MapHas(st.allDtos, st.nestedDtoSchemas[i].key)
                   THEN collectStep(st.nestedDtoSchemas[i].key,
                                    st.nestedDtoSchemas[i].value,
                                    spec, st, FALSE, "nested")
                   ELSE st)

\* for (dto of orderedDtos) for (imp of dto.imports) usedDtos.add(imp)
RECURSIVE collectUsedDtos(_, _, _)
collectUsedDtos(orderedDtos, i, usedDtos) ==
    IF i > Len(orderedDtos) THEN usedDtos
    ELSE collectUsedDtos(orderedDtos, i + 1, unionSeq(usedDtos, orderedDtos[i].imports))

\* DtoGenerator.generateDtos; inlineSchemas is <<>> (undefined) or <<map>>.
\* The result is what the template receives (schemas, enums, dtoImports)
\* together with the collections of the call.
generateDtos(schemas, inlineSchemas, spec) ==
    LET st0 == [allDtos |-> <<>>, dependencies |-> <<>>, nestedDtoSchemas |-> <<>>,
                allEnums |-> <<>>, origins |-> <<>>]
        render(st, orderedDtos, usedDtos, resolved) ==
            [schemas |-> orderedDtos,
             enums |-> st.allEnums,
             dtoImports |-> resolved.sharedDtosUsed,
             localDtos |-> resolved.localDtos,
             usedDtos |-> usedDtos,
             allDtos |-> st.allDtos,
             dependencies |-> st.dependencies,
             nestedDtoSchemas |-> st.nestedDtoSchemas,
             origins |-> st.origins]
        imports(st, orderedDtos, usedDtos) ==
            render(st, orderedDtos, usedDtos, resolveDtoImports(usedDtos, spec))
        used(st, orderedDtos) ==
            imports(st, orderedDtos, collectUsedDtos(orderedDtos, 1, <<>>))
        present(st, names) ==
            used(st, [i \in DOMAIN names |-> MapGet(st.allDtos, names[i])])
        ordered(st, sorted) ==
            present(st, SelectSeq(sorted, LAMBDA n : MapHas(st.allDtos, n)))
        sortDtos(st) == ordered(st, topologicalSort(st.dependencies))
        third(st) == sortDtos(thirdPass(spec, 1, st))
        second(st) == third(IF inlineSchemas # <<>>
                            THEN secondPass(inlineSchemas[1], spec, 1, st) ELSE st)
    IN  second(firstPass(schemas, spec, 1, st0))

\* splitSchemas that leaves the shared schemas in the resource schemas
splitSchemas_sharedInResource(schemas) ==
    [sharedSchemas   |-> SelectSeq(schemas, LAMBDA e : isSharedSchema(e.value)),
     resourceSchemas |-> schemas]

\* DtoGenerator.splitSchemas
splitSchemas(schemas) ==
    [sharedSchemas   |-> SelectSeq(schemas, LAMBDA e : isSharedSchema(e.value)),
     resourceSchemas |-> SelectSeq(schemas, LAMBDA e : ~isSharedSchema(e.value))]

\* DtoGenerator.generateAllDtosSplit; an output is <<>> (undefined) or <<content>>
generateAllDtosSplit(spec, inlineResponseSchemas) ==
    LET split == splitSchemas(spec) IN
    [sharedDtoContent |->
        IF Len(split.sharedSchemas) > 0
        THEN <<generateDtos(split.sharedSchemas, <<>>, spec)>> ELSE <<>>,
     resourceDtoContent |->
        IF Len(split.resourceSchemas) > 0 \/ Len(inlineResponseSchemas) > 0
        THEN <<generateDtos(split.resourceSchemas, <<inlineResponseSchemas>>, spec)>>
        ELSE <<>>]

----------------------------------------------------------------------------
(* ControllerGenerator: response types and the inline response registry *)

\* ControllerGenerator.generateInlineResponseDtoName; status <<>> is undefined
generateInlineResponseDtoName(operationId, status) ==
    IF status # <<>> THEN capitalize(operationId) \o status \o ResponseDto
    ELSE capitalize(operationId) \o ResponseDto

\* ControllerGenerator.getSchemaType; originalRef is a $ref path or <<>>;
\* the result carries the inline response registry
getSchemaType(schema, originalRef, operationId, status, registry) ==
    LET keep(t) == [type |-> t, registry |-> registry] IN
    IF originalRef # <<>> THEN
        IF schema.type = t_array
        THEN keep(originalRef[Len(originalRef)] \o Dto \o ArraySuffix)
        ELSE keep(originalRef[Len(originalRef)] \o Dto)
    ELSE IF schema.ref # <<>> THEN keep(refName(schema) \o Dto)
    ELSE IF schema.type = t_array THEN
        IF schema.items # <<>> THEN
            LET items == schema.items[1] IN
            IF items.ref # <<>> THEN keep(refName(items) \o Dto \o ArraySuffix)
            ELSE IF items.type = t_string THEN keep(t_string \o ArraySuffix)
            ELSE IF items.type \in {t_number, t_integer} THEN keep(t_number \o ArraySuffix)
            ELSE IF items.type = t_boolean THEN keep(t_boolean \o ArraySuffix)
            ELSE keep(t_any \o ArraySuffix)
        ELSE keep(t_any \o ArraySuffix)
    ELSE IF schema.type = t_object /\ hasProperties(schema) THEN
        IF operationId # <<>>
        THEN LET dtoName == generateInlineResponseDtoName(operationId, status)
             IN  [type |-> dtoName, registry |-> MapSet(registry, dtoName, schema)]
        ELSE keep(t_any)
    ELSE IF schema.type = t_string THEN keep(t_string)
    ELSE IF schema.type \in {t_number, t_integer} THEN keep(t_number)
    ELSE IF schema.type = t_boolean THEN keep(t_boolean)
    ELSE keep(t_any)

\* findOriginalSchemaRef that takes the payload of any operation
findOriginalSchemaRef_anyOperation(originalSpec, operationId, type, status) ==
    LET ops == IF originalSpec = <<>> THEN <<>> ELSE originalSpec[1]
        refOf(op) ==
            IF type = "requestBody" THEN
                IF op.requestBody # <<>> THEN op.requestBody[1].ref ELSE <<>>
            ELSE
            LET rs == SelectSeq(op.responses, LAMBDA r : r.status = status)
                schema == IF rs # <<>> /\ rs[1].schema # <<>> THEN rs[1].schema[1]
                          ELSE NoSchema
            IN  IF status = <<>> THEN <<>>
                ELSE IF schema.ref # <<>> THEN schema.ref
                ELSE IF schema.type = t_array /\ schema.items # <<>>
                        /\ schema.items[1].ref # <<>>
                THEN schema.items[1].ref
                ELSE <<>>
        found == SelectSeq(ops, LAMBDA op : refOf(op) # <<>>)
    IN  IF found = <<>> THEN <<>> ELSE refOf(found[1])

\* ControllerGenerator.findOriginalSchemaRef; originalSpec is <<>> (undefined)
\* or <<operations>>, type is "requestBody" or "response"; the result is a
\* $ref path or <<>> (undefined)
findOriginalSchemaRef(originalSpec, operationId, type, status) ==
    LET ops == IF originalSpec = <<>> THEN <<>> ELSE originalSpec[1]
        refOf(op) ==
            IF type = "requestBody" THEN
                IF op.requestBody # <<>> THEN op.requestBody[1].ref ELSE <<>>
            ELSE
            LET rs == SelectSeq(op.responses, LAMBDA r : r.status = status)
                schema == IF rs # <<>> /\ rs[1].schema # <<>> THEN rs[1].schema[1]
                          ELSE NoSchema
            IN  IF status = <<>> THEN <<>>
                ELSE IF schema.ref # <<>> THEN schema.ref
                ELSE IF schema.type = t_array /\ schema.items # <<>>
                        /\ schema.items[1].ref # <<>>
                THEN schema.items[1].ref
                ELSE <<>>
        found == SelectSeq(ops, LAMBDA op : op.operationId = operationId
                                            /\ refOf(op) # <<>>)
    IN  IF found = <<>> THEN <<>> ELSE refOf(found[1])

isSuccess(status) == parseInt(status) >= 200 /\ parseInt(status) < 300

\* ControllerGenerator.processResponses: responses in Object.entries order
RECURSIVE processResponsesLoop(_, _, _, _, _, _)
processResponsesLoop(responses, operationId, originalSpec, i, out, registry) ==
    IF i > Len(responses) THEN [responses |-> out, registry |-> registry]
    ELSE
    LET status == responses[i].status
        hasMultipleSuccessResponses ==
            Len(SelectSeq(responses, LAMBDA r : isSuccess(r.status))) > 1
        originalRef == IF originalSpec # <<>> /\ operationId # <<>>
                       THEN findOriginalSchemaRef(originalSpec, operationId,
                                                  "response", status)
                       ELSE <<>>
        statusForNaming == IF hasMultipleSuccessResponses /\ isSuccess(status)
                           THEN status ELSE <<>>
        r == IF responses[i].schema # <<>>
             THEN getSchemaType(responses[i].schema[1], originalRef, operationId,
                                statusForNaming, registry)
             ELSE [type |-> t_void, registry |-> registry]
    IN  processResponsesLoop(responses, operationId, originalSpec, i + 1,
                             Append(out, [status |-> parseInt(status), type |-> r.type]),
                             r.registry)

\* ControllerGenerator.toCamelCase
toCamelCase(str) ==
    LET isLetter(c) == toUpperCaseChar(c) # c \/ toLowerCaseChar(c) # c
        \* the positions of a hyphen that a letter follows
        hyphens == { i \in 1..(Len(str) - 1) : str[i] = "-" /\ isLetter(str[i + 1]) }
        kept == { i \in DOMAIN str : i \notin hyphens }
        nth(k) == CHOOSE i \in kept : Cardinality({ j \in kept : j < i }) = k - 1
        replaced == [k \in 1..Cardinality(kept) |->
                        IF nth(k) - 1 \in hyphens THEN toUpperCaseChar(str[nth(k)])
                        ELSE str[nth(k)]]
    IN  IF replaced = <<>> THEN <<>>
        ELSE <<toLowerCaseChar(replaced[1])>> \o Tail(replaced)

\* ControllerGenerator.processParameters; a parameter of the document has
\* name, in, required (TRUE, or FALSE when absent) and schema
processParameters(parameters) ==
    LET getParamType(schema) ==
            IF schema = <<>> \/ schema[1].type = <<>> THEN t_string
            ELSE IF schema[1].type = t_integer THEN t_number
            ELSE schema[1].type
        process(param) ==
            LET isRequired == param.required \/ param.in = <<"p","a","t","h">>
                paramName == IF param.in = <<"h","e","a","d","e","r">>
                             THEN toCamelCase(param.name) ELSE param.name
            IN  [name |-> IF isRequired THEN paramName ELSE paramName \o <<"?">>,
                 type |-> getParamType(param.schema),
                 required |-> isRequired,
                 parameterType |-> param.in]
    IN  [i \in DOMAIN parameters |-> process(parameters[i])]

\* getParameterTypePriority that puts the body after the headers
getParameterTypePriority_bodyLast(param) ==
    IF param.parameterType = <<"p","a","t","h">> THEN 1
    ELSE IF param.parameterType = <<"q","u","e","r","y">> THEN 3
    ELSE IF param.parameterType = <<"h","e","a","d","e","r">> THEN 4
    ELSE 5

\* getParameterTypePriority of ControllerGenerator.sortParameters
getParameterTypePriority(param) ==
    IF param.parameterType = <<"p","a","t","h">> THEN 1
    ELSE IF param.parameterType = <<"b","o","d","y">> THEN 2
    ELSE IF param.parameterType = <<"q","u","e","r","y">> THEN 3
    ELSE IF param.parameterType = <<"h","e","a","d","e","r">> THEN 4
    ELSE 5

\* String.prototype.localeCompare on hyphens, question marks and letters:
\* punctuation before letters, letters by the alphabet whatever their
\* case, and on a tie lower case before upper case
localeCompare(a, b) ==
    LET primary(c) == IF c = "-" THEN 1 ELSE IF c = "?" THEN 2
                      ELSE 2 + (CHOOSE n \in DOMAIN Upper : Upper[n] = toUpperCaseChar(c))
        tertiary(c) == IF toLowerCaseChar(c) = c THEN 0 ELSE 1
        lex(x, y) ==
            LET d == { i \in DOMAIN x \cap DOMAIN y : x[i] # y[i] }
                first == CHOOSE i \in d : \A j \in d : i <= j
            IN  IF d = {} THEN (IF Len(x) < Len(y) THEN -1
                                ELSE IF Len(x) > Len(y) THEN 1 ELSE 0)
                ELSE IF x[first] < y[first] THEN -1 ELSE 1
        byLetters == lex([i \in DOMAIN a |-> primary(a[i])],
                         [i \in DOMAIN b |-> primary(b[i])])
    IN  IF byLetters # 0 THEN byLetters
        ELSE lex([i \in DOMAIN a |-> tertiary(a[i])],
                 [i \in DOMAIN b |-> tertiary(b[i])])

\* ControllerGenerator.sortParameters: Array.prototype.sort, which is stable,
\* with the comparator of the source
sortParameters(parameters) ==
    LET compare(a, b) ==
            IF a.required /\ ~b.required THEN -1
            ELSE IF ~a.required /\ b.required THEN 1
            ELSE IF getParameterTypePriority(a) # getParameterTypePriority(b)
            THEN getParameterTypePriority(a) - getParameterTypePriority(b)
            ELSE localeCompare(a.name, b.name)
        before(j, i) ==
            \/ compare(parameters[j], parameters[i]) < 0
            \/ compare(parameters[j], parameters[i]) = 0 /\ j < i
        at(k) == CHOOSE i \in DOMAIN parameters :
                     Cardinality({ j \in DOMAIN parameters : before(j, i) }) = k - 1
    IN  [k \in DOMAIN parameters |-> parameters[at(k)]]

\* ControllerGenerator.processRequestBody; requestBody is <<>> (no JSON
\* content) or <<schema>>; the result is <<>> (undefined) or <<bodyParam>>
processRequestBody(requestBody, operationId, originalSpec) ==
    IF requestBody = <<>> THEN <<>>
    ELSE LET originalRef ==
                 IF originalSpec # <<>> /\ operationId # <<>>
                 THEN findOriginalSchemaRef(originalSpec, operationId,
                                            "requestBody", <<>>)
                 ELSE <<>>
         IN  <<[type |-> getSchemaType(requestBody[1], originalRef,
                                       <<>>, <<>>, <<>>).type]>>

\* ControllerGenerator.extractMethods / processOperation: the parameters, the
\* body and the responses of every operation, threading the inline response
\* registry
RECURSIVE extractMethods(_, _, _, _, _)
extractMethods(operations, originalSpec, i, methods, registry) ==
    IF i > Len(operations) THEN [methods |-> methods, registry |-> registry]
    ELSE LET operation == operations[i]
             allParameters == processParameters(operation.parameters)
             bodyParam == processRequestBody(operation.requestBody,
                                             operation.operationId, originalSpec)
             allMethodParams ==
                 IF bodyParam # <<>>
                 THEN Append(allParameters,
                             [name |-> <<"b","o","d","y">>,
                              type |-> bodyParam[1].type,
                              required |-> TRUE,
                              parameterType |-> <<"b","o","d","y">>])
                 ELSE allParameters
             r == processResponsesLoop(operation.responses, operation.operationId,
                                       originalSpec, 1, <<>>, registry)
         IN  extractMethods(operations, originalSpec, i + 1,
                            Append(methods, [methodName |-> operation.operationId,
                                             parameters |-> allParameters,
                                             bodyParam |-> bodyParam,
                                             responses |-> r.responses,
                                             allParameters |->
                                                 sortParameters(allMethodParams)]),
                            r.registry)

\* Array.prototype.join
RECURSIVE join(_, _)
join(parts, separator) ==
    IF parts = <<>> THEN <<>>
    ELSE IF Len(parts) = 1 THEN parts[1]
    ELSE parts[1] \o separator \o join(Tail(parts), separator)

\* getReturnType that keeps the duplicates
getReturnType_noDedup(method, includeErrorTypes) ==
    LET responses ==
            IF includeErrorTypes THEN method.responses
            ELSE SelectSeq(method.responses,
                           LAMBDA r : r.status >= 200 /\ r.status < 300)
        types == [i \in DOMAIN responses |-> responses[i].type]
        responseTypes == SelectSeq(types, LAMBDA t : t # t_void /\ t # t_any)
    IN  IF Len(responses) = 0 THEN t_void
        ELSE IF Len(responseTypes) = 0
        THEN (IF \E i \in DOMAIN responses : responses[i].type # t_void
              THEN t_any ELSE t_void)
        ELSE join(responseTypes, <<" ","|"," ">>)

\* ControllerGenerator.getReturnType
getReturnType(method, includeErrorTypes) ==
    LET responses ==
            IF includeErrorTypes THEN method.responses
            ELSE SelectSeq(method.responses,
                           LAMBDA r : r.status >= 200 /\ r.status < 300)
        types == [i \in DOMAIN responses |-> responses[i].type]
        typed == SelectSeq(types, LAMBDA t : t # t_void /\ t # t_any)
        \* array.indexOf(type) === index
        first == { i \in DOMAIN typed : \A j \in 1..(i - 1) : typed[j] # typed[i] }
        nth(k) == CHOOSE i \in first : Cardinality({ j \in first : j < i }) = k - 1
        responseTypes == [k \in 1..Cardinality(first) |-> typed[nth(k)]]
    IN  IF Len(responses) = 0 THEN t_void
        ELSE IF Len(responseTypes) = 0
        THEN (IF \E i \in DOMAIN responses : responses[i].type # t_void
              THEN t_any ELSE t_void)
        ELSE join(responseTypes, <<" ","|"," ">>)

\* String.prototype.split
RECURSIVE splitOn(_, _)
splitOn(str, separator) ==
    LET at == { i \in 1..(Len(str) - Len(separator) + 1) :
                  SubSeq(str, i, i + Len(separator) - 1) = separator }
        first == CHOOSE i \in at : \A j \in at : i <= j
    IN  IF at = {} THEN <<str>>
        ELSE <<SubSeq(str, 1, first - 1)>>
             \o splitOn(SubSeq(str, first + Len(separator), Len(str)), separator)

\* ControllerGenerator.extractReferencedDtosFromSchema
RECURSIVE extractReferencedDtosFromSchema(_)
extractReferencedDtosFromSchema(schema) ==
    LET RECURSIVE ofProperties(_)
        ofProperties(props) ==
            IF props = <<>> THEN <<>>
            ELSE extractReferencedDtosFromSchema(props[1].value)
                 \o ofProperties(Tail(props))
        ofItems == IF schema.items # <<>>
                   THEN extractReferencedDtosFromSchema(schema.items[1]) ELSE <<>>
    IN  (IF schema.ref # <<>> THEN <<refName(schema) \o Dto>> ELSE <<>>)
        \o (IF hasProperties(schema) THEN ofProperties(entries(schema)) ELSE <<>>)
        \o ofItems
        \o (IF schema.type = t_array THEN ofItems ELSE <<>>)

\* ControllerGenerator.extractDtoImports with DTO generation enabled; the
\* set dtos in insertion order
extractDtoImports(methods, registry, spec, includeErrorTypes) ==
    LET base(type) == stripSuffix(type, ArraySuffix)
        named(types) == SelectSeq(types, LAMBDA t : t # t_void /\ t # t_any)
        ofMethod(m) ==
            named((IF m.bodyParam # <<>> THEN <<base(m.bodyParam[1].type)>> ELSE <<>>)
                  \o [k \in DOMAIN named([j \in DOMAIN m.responses |->
                                              m.responses[j].type]) |->
                        base(named([j \in DOMAIN m.responses |->
                                       m.responses[j].type])[k])])
        ofReturnType(m) ==
            LET unionTypes == named(<<getReturnType(m, includeErrorTypes)>>)
                members == IF unionTypes = <<>> THEN <<>>
                           ELSE splitOn(unionTypes[1], <<" ","|"," ">>)
            IN  named([k \in DOMAIN members |-> base(members[k])])
        RECURSIVE collect(_, _, _)
        collect(of(_), items, dtos) ==
            IF items = <<>> THEN dtos
            ELSE collect(of, Tail(items), unionSeq(dtos, of(items[1])))
        ofInline(entry) == extractReferencedDtosFromSchema(entry.value)
    IN  resolveDtoImports(
            collect(ofInline, registry,
                    collect(ofReturnType, methods, collect(ofMethod, methods, <<>>))),
            spec)

\* ControllerGenerator.generateController: the methods handed to the template
templateMethods(methods, includeErrorTypes) ==
    [i \in DOMAIN methods |->
        [returnType |-> getReturnType(methods[i], includeErrorTypes)] @@ methods[i]]

\* ServiceGenerator.getSchemaType
ServiceGenerator_getSchemaType(schema, originalRef) ==
    IF originalRef # <<>> THEN originalRef[Len(originalRef)] \o Dto
    ELSE IF schema.ref # <<>> THEN refName(schema) \o Dto
    ELSE IF schema.type = t_array THEN
        IF schema.items # <<>> /\ schema.items[1].ref # <<>>
        THEN refName(schema.items[1]) \o Dto \o ArraySuffix
        ELSE t_any \o ArraySuffix
    ELSE t_any

\* ServiceGenerator.getReturnType; its findOriginalSchemaRef is the one of
\* ControllerGenerator
ServiceGenerator_getReturnType(responses, operationId, originalSpec) ==
    LET success == SelectSeq(responses, LAMBDA r : isSuccess(r.status))
        originalRef ==
            IF originalSpec # <<>> /\ operationId # <<>>
            THEN findOriginalSchemaRef(originalSpec, operationId, "response",
                                       success[1].status)
            ELSE <<>>
    IN  IF success = <<>> THEN t_void
        ELSE IF success[1].schema = <<>> THEN t_void
        ELSE ServiceGenerator_getSchemaType(success[1].schema[1], originalRef)

\* ServiceGenerator.extractMethods / processOperation
ServiceGenerator_extractMethods(operations, originalSpec) ==
    LET processParameters_(parameters) ==
            [i \in DOMAIN parameters |->
                LET isRequired == parameters[i].required
                                  \/ parameters[i].in = <<"p","a","t","h">>
                IN  [name |-> IF isRequired THEN parameters[i].name
                              ELSE parameters[i].name \o <<"?">>,
                     required |-> isRequired]]
        processRequestBody_(requestBody, operationId) ==
            IF requestBody = <<>> THEN <<>>
            ELSE <<[type |-> ServiceGenerator_getSchemaType(
                                 requestBody[1],
                                 IF originalSpec # <<>> /\ operationId # <<>>
                                 THEN findOriginalSchemaRef(originalSpec, operationId,
                                                            "requestBody", <<>>)
                                 ELSE <<>>)]>>
    IN  [i \in DOMAIN operations |->
            [methodName |-> operations[i].operationId,
             parameters |-> processParameters_(operations[i].parameters),
             bodyParam |-> processRequestBody_(operations[i].requestBody,
                                               operations[i].operationId),
             returnType |-> ServiceGenerator_getReturnType(
                                operations[i].responses,
                                operations[i].operationId, originalSpec)]]

\* clearInlineResponseSchemas that keeps the registry
clearInlineResponseSchemas_keep(registry) == registry

\* ControllerGenerator.clearInlineResponseSchemas
clearInlineResponseSchemas(registry) == <<>>

----------------------------------------------------------------------------
(* Inputs *)

\* the total number of properties declared by the component schemas of a spec
MaxProps == 2

n_A == <<"A">>
n_B == <<"B">>
n_AData == <<"A","D","a","t","a">>
n_GetResponse == <<"G","e","t">> \o <<"R","e","s","p","o","n","s","e">>
k_id == <<"i","d">>
k_name == <<"n","a","m","e">>
k_status == <<"s","t","a","t","u","s">>
k_a == <<"a">>
k_b == <<"b">>
k_kids == <<"k","i","d","s">>
k_data == <<"d","a","t","a">>
k_tags == <<"t","a","g","s">>
k_total == <<"t","o","t","a","l">>
v_open == <<"o","p","e","n">>
v_closed == <<"c","l","o","s","e","d">>
v_a_b == <<"a","-","b">>
op_get == <<"g","e","t">>
s_200 == <<"2","0","0">>

\* the properties a component schema is built from, in declaration order
PropUniverse ==
    << Prop(k_id, StringSchema),
       Prop(k_name, StringSchema),
       Prop(k_status, EnumSchema(<<v_open, v_closed>>)),
       Prop(k_status, EnumSchema(<<v_a_b>>)),
       Prop(k_a, RefSchema(n_A)),
       Prop(k_b, RefSchema(n_B)),
       Prop(k_kids, ArraySchema(RefSchema(n_A))),
       Prop(k_data, ObjectSchema(<<Prop(k_name, StringSchema),
                                   Prop(k_id, StringSchema)>>, <<>>)),
       Prop(k_data, ArraySchema(ObjectSchema(<<Prop(k_id, StringSchema)>>, <<>>))),
       Prop(k_tags, ArraySchema(EnumSchema(<<v_open>>))) >>

\* index sets that name no property key twice
PropSets(k) ==
    { S \in SUBSET DOMAIN PropUniverse :
        /\ Cardinality(S) <= k
        /\ \A i, j \in S : i # j => PropUniverse[i].key # PropUniverse[j].key }

Indices == [i \in DOMAIN PropUniverse |-> i]

\* the object schema declaring the properties of S
Body(S, shared) ==
    LET idx == SelectSeq(Indices, LAMBDA i : i \in S) IN
    [ObjectSchema([j \in DOMAIN idx |-> PropUniverse[idx[j]]], <<>>)
        EXCEPT !.xShared = shared]

\* the name of the first component schema, the names of the second
FirstNames == {n_A}
SecondNames == {n_B, n_AData, n_GetResponse}

\* components.schemas of a spec: at most two schemas
Specs ==
    {<<>>}
    \cup { <<Prop(n1, Body(S1, x1))>> :
             n1 \in FirstNames, S1 \in PropSets(MaxProps), x1 \in BOOLEAN }
    \cup { <<Prop(c[1], Body(c[3], c[5])), Prop(c[2], Body(c[4], c[6]))>> :
             c \in { d \in FirstNames \X SecondNames \X PropSets(MaxProps)
                               \X PropSets(MaxProps) \X BOOLEAN \X BOOLEAN :
                       Cardinality(d[3]) + Cardinality(d[4]) <= MaxProps } }

\* inline response bodies
PageBody == ObjectSchema(
    <<Prop(k_data, ArraySchema(ObjectSchema(<<Prop(k_id, StringSchema)>>, <<>>))),
      Prop(k_total, NumberSchema)>>, <<>>)
WrapBody == ObjectSchema(
    <<Prop(k_a, RefSchema(n_A)),
      Prop(k_data, ObjectSchema(<<Prop(k_name, StringSchema),
                                  Prop(k_id, StringSchema)>>, <<>>))>>, <<>>)

Operation(id, responses) ==
    [operationId |-> id, parameters |-> <<>>, requestBody |-> <<>>,
     responses |-> responses]
Response(status, schema) == [status |-> status, schema |-> schema]

\* the operations of a spec
OperationSets ==
    { <<>>,
      <<Operation(op_get, <<Response(s_200, <<PageBody>>)>>)>>,
      <<Operation(op_get, <<Response(s_200, <<WrapBody>>)>>)>> }

----------------------------------------------------------------------------
(* State machine: GeneratorOrchestrator.generateFromSpec for one spec *)

VARIABLES
    spec,                  \* components.schemas of the bundled spec
    operations,            \* the operations of spec.paths
    originalSpec,          \* spec._originalSpec: <<>> or <<operations>>
    pc,                    \* "controller", "dtos" or "done"
    inlineResponseSchemas, \* ControllerGenerator.inlineResponseSchemas
    methods,               \* the methods extracted by the controller generator
    sharedDtoContent,      \* <<>> or <<content>> of the shared pass
    resourceDtoContent,    \* <<>> or <<content>> of the resource pass
    includeErrorTypesInReturnType, \* ControllerGenerator option
    serviceMethods,        \* <<>> or <<methods>> of the service generator
    sortDependencies,      \* the dependency map given to topologicalSort
    sortResult,            \* <<>> or <<result>> of topologicalSort
    specPaths,             \* the spec files found by findSpecs, in order
    cursor,                \* the number of spec files generate() has taken
    files,                 \* the files written by FileWriter, in order
    sharedDtoContents,     \* GeneratorOrchestrator.sharedDtoContents
    log,                   \* the messages given to Logger, in order
    outcome,               \* of generate(): "pending", "resolved", "rejected"
    controllerImports,     \* <<>> or <<the DTO imports of the controller>>
    enumGraph,             \* the schema objects a collectEnumsForTemplate call is given
    enumStack,             \* the frames of the calls under way, innermost last
    enumVisited,           \* the visited set of the call
    enumExpanded,          \* how often the call got past the visited test, per object
    enumResult             \* <<>> or <<the enums the call returned>>

\* the state of one document being processed
docVars == <<spec, operations, originalSpec, pc, methods,
             sharedDtoContent, resourceDtoContent, controllerImports>>
\* the state of a topologicalSort call
sortVars == <<sortDependencies, sortResult>>
\* the state of a generate() call
runVars == <<specPaths, cursor, files, sharedDtoContents, log, outcome>>
\* the state of a collectEnumsForTemplate call
enumVars == <<enumGraph, enumStack, enumVisited, enumExpanded, enumResult>>

vars == <<docVars, inlineResponseSchemas, includeErrorTypesInReturnType,
          serviceMethods, sortVars, runVars, enumVars>>

\* no topologicalSort call and no generate() call is under way
NoSort == sortDependencies = <<>> /\ sortResult = <<>>
NoEnums ==
    /\ enumGraph = [edges |-> {}, enums |-> {}]
    /\ enumStack = <<>>
    /\ enumVisited = {}
    /\ enumExpanded = <<>>
    /\ enumResult = <<>>
NoRun ==
    /\ specPaths = <<>>
    /\ cursor = 0
    /\ files = <<>>
    /\ sharedDtoContents = <<>>
    /\ log = <<>>
    /\ outcome = "pending"

Init ==
    /\ spec \in Specs
    /\ operations \in OperationSets
    /\ originalSpec = <<operations>>
    /\ pc = "controller"
    /\ inlineResponseSchemas = <<>>
    /\ methods = <<>>
    /\ controllerImports = <<>>
    /\ NoEnums
    /\ sharedDtoContent = <<>>
    /\ resourceDtoContent = <<>>
    /\ includeErrorTypesInReturnType = FALSE
    /\ serviceMethods = <<>>
    /\ NoSort
    /\ NoRun

\* generateFromSpec: clearInlineResponseSchemas, then generateController
GenerateController ==
    /\ pc = "controller"
    /\ LET write(r) == /\ methods' = templateMethods(r.methods,
                                                       includeErrorTypesInReturnType)
                        /\ inlineResponseSchemas' = r.registry
                        /\ controllerImports' =
                               <<extractDtoImports(r.methods, r.registry, spec,
                                                   includeErrorTypesInReturnType)>>
       IN  write(extractMethods(operations, originalSpec, 1, <<>>,
                                clearInlineResponseSchemas(inlineResponseSchemas)))
    /\ pc' = "dtos"
    /\ UNCHANGED <<spec, operations, originalSpec, sharedDtoContent, resourceDtoContent>>
    /\ UNCHANGED <<includeErrorTypesInReturnType, serviceMethods, sortVars, enumVars, runVars>>

\* generateDtos that stores the merged schemas in the spec
GenerateDtos_writeBack ==
    /\ pc = "dtos"
    /\ LET write(r) == /\ sharedDtoContent' = r.sharedDtoContent
                        /\ resourceDtoContent' = r.resourceDtoContent
       IN  write(IF Len(spec) > 0 \/ Len(inlineResponseSchemas) > 0
                 THEN generateAllDtosSplit(spec, inlineResponseSchemas)
                 ELSE [sharedDtoContent |-> <<>>, resourceDtoContent |-> <<>>])
    /\ pc' = "done"
    /\ spec' = [i \in DOMAIN spec |-> Prop(spec[i].key, mergeAllOf(spec[i].value))]
    /\ UNCHANGED <<operations, originalSpec, inlineResponseSchemas, methods,
                   controllerImports>>
    /\ UNCHANGED <<includeErrorTypesInReturnType, serviceMethods, sortVars, enumVars, runVars>>

\* GeneratorOrchestrator.generateDtos -> DtoGenerator.generateAllDtosSplit
GenerateDtos ==
    /\ pc = "dtos"
    /\ LET write(r) == /\ sharedDtoContent' = r.sharedDtoContent
                        /\ resourceDtoContent' = r.resourceDtoContent
       IN  write(IF Len(spec) > 0 \/ Len(inlineResponseSchemas) > 0
                 THEN generateAllDtosSplit(spec, inlineResponseSchemas)
                 ELSE [sharedDtoContent |-> <<>>, resourceDtoContent |-> <<>>])
    /\ pc' = "done"
    /\ UNCHANGED <<spec, operations, originalSpec, inlineResponseSchemas, methods,
                   controllerImports>>
    /\ UNCHANGED <<includeErrorTypesInReturnType, serviceMethods, sortVars, enumVars, runVars>>

Next == GenerateController \/ GenerateDtos

Spec == Init /\ [][Next]_vars

\* the names that the $refs of a schema point to
RECURSIVE RefTargets(_)
RefTargets(schema) ==
    (IF schema.ref # <<>> THEN {refName(schema)} ELSE {})
    \cup (IF schema.items # <<>> THEN RefTargets(schema.items[1]) ELSE {})
    \cup (IF hasProperties(schema)
          THEN UNION { RefTargets(entries(schema)[i].value) :
                         i \in DOMAIN entries(schema) }
          ELSE {})

\* every $ref of the document names one of its component schemas, as
\* SwaggerParser.bundle with validation guarantees of a parsed document
RefsResolve ==
    /\ \A e \in Range(spec) : RefTargets(e.value) \subseteq Range(MapKeys(spec))
    /\ \A o \in Range(operations) : \A r \in Range(o.responses) :
          r.schema # <<>> => RefTargets(r.schema[1]) \subseteq Range(MapKeys(spec))

\* the documents SpecParser.parseSpec accepts
InitParsed == Init /\ RefsResolve

SpecParsed == InitParsed /\ [][Next]_vars

----------------------------------------------------------------------------
(* Properties *)

\* the contents of the generation passes that have completed
Passes ==
    (IF sharedDtoContent # <<>> THEN {sharedDtoContent[1]} ELSE {})
    \cup (IF resourceDtoContent # <<>> THEN {resourceDtoContent[1]} ELSE {})

\* the names of a sequence of descriptors
Names(descriptors) == [i \in DOMAIN descriptors |-> descriptors[i].name]

\* the position of x in the sequence s
Pos(s, x) == CHOOSE i \in DOMAIN s : s[i] = x

\* dependency edges between registered entities, and reachability along them
Succ(dependencies, n) ==
    IF MapHas(dependencies, n)
    THEN Range(MapGet(dependencies, n)) \cap Range(MapKeys(dependencies))
    ELSE {}
RECURSIVE ReachFrom(_, _)
ReachFrom(dependencies, S) ==
    LET T == S \cup UNION { Succ(dependencies, n) : n \in S }
    IN  IF T = S THEN S ELSE ReachFrom(dependencies, T)
Reachable(dependencies, from, to) ==
    to \in ReachFrom(dependencies, Succ(dependencies, from))

\* E imports D, both are emitted, and E is not reachable from D
AcyclicEdge(c, E, D) ==
    /\ E \in Range(Names(c.schemas))
    /\ D \in Range(Names(c.schemas))
    /\ D \in Range(MapGet(c.dependencies, E))
    /\ ~Reachable(c.dependencies, D, E)

\* C1: in the entity list a pass emits, an entity D that E imports is
\* emitted before E unless the edge E -> D lies on a dependency cycle
C1_DependenciesFirst ==
    \A c \in Passes :
        \A E, D \in Range(Names(c.schemas)) :
            AcyclicEdge(c, E, D) => Pos(Names(c.schemas), D) < Pos(Names(c.schemas), E)

\* C1 witness: an acyclic edge whose target was registered after its source
C1_Witness ==
    \E c \in Passes :
        \E E, D \in Range(Names(c.schemas)) :
            /\ AcyclicEdge(c, E, D)
            /\ Pos(MapKeys(c.dependencies), D) > Pos(MapKeys(c.dependencies), E)

\* the component schemas a pass processes: the shared ones in the shared
\* pass, the others in the resource pass
PassesOf(e) ==
    IF isSharedSchema(e.value)
    THEN (IF sharedDtoContent # <<>> THEN {sharedDtoContent[1]} ELSE {})
    ELSE (IF resourceDtoContent # <<>> THEN {resourceDtoContent[1]} ELSE {})

\* the property is a $ref to the entity itself / an array of such $refs
IsSelfRef(prop, dtoName) == prop.ref # <<>> /\ refName(prop) \o Dto = dtoName
IsSelfRefArray(prop, dtoName) ==
    /\ prop.ref = <<>>
    /\ prop.type = t_array
    /\ prop.items # <<>>
    /\ IsSelfRef(prop.items[1], dtoName)

\* the sequence s without its i-th element
Without(s, i) == SubSeq(s, 1, i - 1) \o SubSeq(s, i + 1, Len(s))

\* C2: a property that is a $ref to its own entity has the type 'any', an
\* array of such $refs the type 'any[]'; the entity's other properties and
\* its import set are those of the schema without that property
C2_SelfReferenceUntyped ==
    \A e \in Range(spec) : \A c \in PassesOf(e) :
        LET dtoName == e.key \o Dto
            dto == MapGet(c.allDtos, dtoName)
        IN  \A i \in DOMAIN entries(e.value) :
              LET prop == entries(e.value)[i].value
                  rest == processSchema(dtoName,
                              [e.value EXCEPT !.properties =
                                  <<Without(entries(e.value), i)>>], spec)
              IN  (IsSelfRef(prop, dtoName) \/ IsSelfRefArray(prop, dtoName)) =>
                    /\ dto.properties[i].type =
                         IF IsSelfRef(prop, dtoName) THEN t_any
                         ELSE t_any \o ArraySuffix
                    /\ Without(dto.properties, i) = rest.properties
                    /\ dto.imports = rest.imports

\* C2 witness: an emitted entity with a $ref to itself, an array of $refs to
\* itself, next to each other
C2_Witness ==
    \E e \in Range(spec) : \E c \in PassesOf(e) :
        /\ e.key \o Dto \in Range(Names(c.schemas))
        /\ \E i, j \in DOMAIN entries(e.value) :
              /\ IsSelfRef(entries(e.value)[i].value, e.key \o Dto)
              /\ IsSelfRefArray(entries(e.value)[j].value, e.key \o Dto)

\* type.replace(/(\[\])*$/, ''): the type without its array suffixes
RECURSIVE BaseType(_)
BaseType(type) ==
    IF endsWith(type, ArraySuffix) THEN BaseType(stripSuffix(type, ArraySuffix))
    ELSE type

\* the type names that are no entity and no enum
ScalarTypes == {t_string, t_number, t_boolean, t_object, t_any}

\* C3 (as claimed): every entity or enum name in the type of an emitted
\* property is emitted by the same pass or is in its shared import bucket
C3_ReferencesResolved ==
    \A c \in Passes :
        \A i \in DOMAIN c.schemas : \A j \in DOMAIN c.schemas[i].properties :
            LET name == BaseType(c.schemas[i].properties[j].type) IN
            name \notin ScalarTypes =>
                \/ name \in Range(Names(c.schemas))
                \/ name \in Range(Names(c.enums))
                \/ name \in Range(c.dtoImports)


\* the component schemas, inline response schemas and nested schemas that
\* one pass was given, by origin
IsResourcePass(c) == resourceDtoContent # <<>> /\ c = resourceDtoContent[1]
ComponentsOf(c) ==
    SelectSeq(spec, LAMBDA e : IF IsResourcePass(c) THEN ~isSharedSchema(e.value)
                               ELSE isSharedSchema(e.value))
InlinesOf(c) == IF IsResourcePass(c) THEN inlineResponseSchemas ELSE <<>>
SourceOf(c, origin) ==
    IF origin.value = "component"
    THEN MapGet(ComponentsOf(c), stripSuffix(origin.key, Dto))
    ELSE IF origin.value = "inline" THEN MapGet(InlinesOf(c), origin.key)
    ELSE MapGet(c.nestedDtoSchemas, origin.key)

\* C4: a pass emits no entity name twice; every name is registered once, by
\* the first of component schemas, inline responses and nested schemas that
\* carries it, and its descriptor is the one resolved from that schema
C4_UniqueEntityNames ==
    \A c \in Passes :
        /\ \A i, j \in DOMAIN c.schemas :
              c.schemas[i].name = c.schemas[j].name => i = j
        /\ \A i, j \in DOMAIN c.origins :
              c.origins[i].key = c.origins[j].key => i = j
        /\ Range(MapKeys(c.origins)) = Range(Names(c.schemas))
        /\ \A i \in DOMAIN c.origins :
              LET o == c.origins[i] IN
              /\ o.value = "inline" => ~MapHas(ComponentsOf(c), stripSuffix(o.key, Dto))
              /\ o.value = "nested" =>
                    /\ ~MapHas(ComponentsOf(c), stripSuffix(o.key, Dto))
                    /\ ~MapHas(InlinesOf(c), o.key)
              /\ MapGet(c.allDtos, o.key) =
                    processSchema(o.key, mergeAllOf(SourceOf(c, o)), spec)

\* C4 witness: an inline response schema is skipped because a component
\* schema of the pass registered its name
C4_Witness ==
    \E c \in Passes : \E i \in DOMAIN c.origins :
        /\ c.origins[i].value = "component"
        /\ MapHas(InlinesOf(c), c.origins[i].key)

\* the inline object positions of a schema: its object-valued properties
\* and the items of its array-valued properties
InlineAt(schema, i) ==
    LET prop == entries(schema)[i].value IN
    IF isInlineObject(prop) THEN <<prop>>
    ELSE IF prop.type = t_array /\ prop.items # <<>> /\ isInlineObject(prop.items[1])
    THEN <<prop.items[1]>>
    ELSE <<>>

\* the component schemas with the property-name set of schema, in schema order
SameNames(schema) ==
    SelectSeq(spec, LAMBDA e : /\ hasProperties(e.value)
                               /\ Range(keys(e.value)) = Range(keys(schema)))

\* the name synthesized for the inline object at property i of the entity
SynthesizedName(dtoName, schema, i) ==
    parentTypeName(dtoName) \o capitalize(entries(schema)[i].key)
        \o (IF isInlineObject(entries(schema)[i].value) THEN Dto ELSE Item \o Dto)

RECURSIVE EnumOccurrences(_)
RECURSIVE EnumOccurrencesFrom(_, _)
EnumOccurrencesFrom(schema, i) ==
    IF i > Len(entries(schema)) THEN <<>>
    ELSE LET prop == entries(schema)[i].value IN
         (IF prop.enum # <<>> /\ prop.type = t_string
          THEN <<[name |-> capitalize(entries(schema)[i].key) \o EnumSuffix,
                  literals |-> prop.enum[1]]>>
          ELSE <<>>)
         \o (IF prop.type = t_object THEN EnumOccurrences(prop) ELSE <<>>)
         \o (IF prop.type = t_array /\ prop.items # <<>> /\ prop.items[1].type = t_object
             THEN EnumOccurrences(prop.items[1]) ELSE <<>>)
         \o EnumOccurrencesFrom(schema, i + 1)
EnumOccurrences(schema) ==
    IF hasProperties(schema) THEN EnumOccurrencesFrom(schema, 1) ELSE <<>>

\* the enum definitions a pass meets, in processing order
RECURSIVE PassOccurrences(_, _)
PassOccurrences(c, k) ==
    IF k > Len(c.origins) THEN <<>>
    ELSE EnumOccurrences(mergeAllOf(SourceOf(c, c.origins[k])))
         \o PassOccurrences(c, k + 1)

StatusEnum == <<"S","t","a","t","u","s">> \o EnumSuffix
K_OPEN == <<"O","P","E","N">>
K_CLOSED == <<"C","L","O","S","E","D">>

\* C6: the enum list of a pass has one descriptor per enum name, with the
\* literal values of the definition met first; values [open, closed] get
\* the keys OPEN, CLOSED
C6_EnumsDeduplicated ==
    \A c \in Passes :
        LET occ == PassOccurrences(c, 1) IN
        /\ \A i, j \in DOMAIN c.enums : c.enums[i].name = c.enums[j].name => i = j
        /\ Range(Names(c.enums)) = { occ[k].name : k \in DOMAIN occ }
        /\ \A i \in DOMAIN c.enums :
              LET first == CHOOSE k \in DOMAIN occ :
                              /\ occ[k].name = c.enums[i].name
                              /\ \A m \in 1..(k-1) : occ[m].name # c.enums[i].name
                  values == c.enums[i].values
              IN  /\ [v \in DOMAIN values |-> values[v].value] = occ[first].literals
                  /\ occ[first].literals = <<v_open, v_closed>> =>
                        [v \in DOMAIN values |-> values[v].key] = <<K_OPEN, K_CLOSED>>

\* C6 witness: two schemas of a pass both declare status: [open, closed]
C6_Witness ==
    \E c \in Passes :
        LET occ == PassOccurrences(c, 1) IN
        /\ \E k, m \in DOMAIN occ :
              /\ k # m
              /\ occ[k] = [name |-> StatusEnum, literals |-> <<v_open, v_closed>>]
              /\ occ[m] = occ[k]
        /\ StatusEnum \in Range(Names(c.enums))


n_GetResponseDto == n_GetResponse \o Dto
n_GetResponseDataItemDto == n_GetResponse \o <<"D","a","t","a">> \o Item \o Dto

\* the resource pass resolved the inline response body
\* {data: array<{id: string}>, total: number} of operation get, and no
\* component schema has the property names of the array items
PageResponseResolved(c) ==
    /\ IsResourcePass(c)
    /\ MapHas(inlineResponseSchemas, n_GetResponseDto)
    /\ MapGet(inlineResponseSchemas, n_GetResponseDto) = PageBody
    /\ [key |-> n_GetResponseDto, value |-> "inline"] \in Range(c.origins)
    /\ SameNames(PageBody.properties[1][1].value.items[1]) = <<>>

\* the type of the data property of the response entity
DataType(c) == MapGet(c.allDtos, n_GetResponseDto).properties[1].type

\* the pass emits exactly one entity GetResponseDataItemDto
OneDataItemEntity(c) ==
    Cardinality({ i \in DOMAIN c.schemas :
                    c.schemas[i].name = n_GetResponseDataItemDto }) = 1

C8_UnresolvableRefUntyped ==
    \A c \in Passes : \A k \in DOMAIN c.origins :
        LET schema == mergeAllOf(SourceOf(c, c.origins[k]))
            dto == MapGet(c.allDtos, c.origins[k].key)
        IN  hasProperties(schema) => \A i \in DOMAIN entries(schema) :
              LET prop == entries(schema)[i].value IN
              (prop.ref # <<>> /\ ~MapHas(spec, refName(prop)))
                  => dto.properties[i].type = t_any

\* all orders of iteration of the set s
Orders(s) ==
    { [i \in DOMAIN s |-> s[p[i]]] :
        p \in { q \in [DOMAIN s -> DOMAIN s] : \A i, j \in DOMAIN s : q[i] = q[j] => i = j } }

\* C9: the local and the shared bucket of a pass are disjoint, together
\* they are the used names, the shared bucket holds exactly the used names
\* <S>Dto of x-shared component schemas S; the buckets depend neither on
\* the order of the used names, nor change when they are partitioned again
C9_ImportPartition ==
    \A c \in Passes :
        LET local == Range(c.localDtos)
            shared == Range(c.dtoImports)
        IN  /\ local \cap shared = {}
            /\ local \cup shared = Range(c.usedDtos)
            /\ Len(c.localDtos) + Len(c.dtoImports) = Len(c.usedDtos)
            /\ \A d \in Range(c.usedDtos) :
                  d \in shared <=> \E e \in Range(spec) :
                                      e.value.xShared /\ d = e.key \o Dto
            /\ \A u \in Orders(c.usedDtos) :
                  /\ Range(resolveDtoImports(u, spec).localDtos) = local
                  /\ Range(resolveDtoImports(u, spec).sharedDtosUsed) = shared
            /\ \A u \in Orders(c.localDtos \o c.dtoImports) :
                  /\ Range(resolveDtoImports(u, spec).localDtos) = local
                  /\ Range(resolveDtoImports(u, spec).sharedDtosUsed) = shared
            /\ resolveDtoImports(c.localDtos, spec) =
                  [localDtos |-> c.localDtos, sharedDtosUsed |-> <<>>]
            /\ resolveDtoImports(c.dtoImports, spec) =
                  [localDtos |-> <<>>, sharedDtosUsed |-> c.dtoImports]

\* C9 witness: a pass whose used names fall into both buckets
C9_Witness ==
    \E c \in Passes : c.localDtos # <<>> /\ c.dtoImports # <<>>

\* the names a pass registered from the given origin
Registered(content, origin) ==
    IF content = <<>> THEN {}
    ELSE { content[1].origins[i].key :
             i \in { j \in DOMAIN content[1].origins :
                       content[1].origins[j].value = origin } }
Emitted(content) ==
    IF content = <<>> THEN {} ELSE Range(Names(content[1].schemas))

\* C10: a non-enum component schema is processed by the shared pass alone if
\* it is x-shared and by the resource pass alone otherwise, and its entity
\* is emitted there; inline response DTOs are processed by the resource pass
\* alone and their names are emitted there; without shared schemas there is
\* no shared output, without resource and inline schemas no resource output
C10_SplitOutputs ==
    pc = "done" =>
        /\ \A e \in Range(spec) : mergeAllOf(e.value).enum = <<>> =>
              IF isSharedSchema(e.value)
              THEN /\ e.key \o Dto \in Registered(sharedDtoContent, "component")
                   /\ e.key \o Dto \in Emitted(sharedDtoContent)
                   /\ e.key \o Dto \notin Registered(resourceDtoContent, "component")
              ELSE /\ e.key \o Dto \in Registered(resourceDtoContent, "component")
                   /\ e.key \o Dto \in Emitted(resourceDtoContent)
                   /\ e.key \o Dto \notin Registered(sharedDtoContent, "component")
        /\ Registered(sharedDtoContent, "inline") = {}
        /\ Registered(resourceDtoContent, "inline")
              \subseteq Range(MapKeys(inlineResponseSchemas))
        /\ Range(MapKeys(inlineResponseSchemas)) \subseteq Emitted(resourceDtoContent)
        /\ (\A e \in Range(spec) : ~isSharedSchema(e.value)) => sharedDtoContent = <<>>
        /\ ((\A e \in Range(spec) : isSharedSchema(e.value))
               /\ inlineResponseSchemas = <<>>) => resourceDtoContent = <<>>

\* C10 witness: a shared and a resource schema and an inline response DTO
\* have been split into the two outputs
C10_Witness ==
    /\ pc = "done"
    /\ sharedDtoContent # <<>>
    /\ Registered(resourceDtoContent, "component") # {}
    /\ Registered(resourceDtoContent, "inline") # {}

----------------------------------------------------------------------------
(* Required-ness: documents whose schemas carry required lists *)

\* the length of a required list
MaxRequired == 2

\* the state of the generators before a document is processed
Fresh ==
    /\ pc = "controller"
    /\ inlineResponseSchemas = <<>>
    /\ methods = <<>>
    /\ controllerImports = <<>>
    /\ NoEnums
    /\ sharedDtoContent = <<>>
    /\ resourceDtoContent = <<>>
    /\ includeErrorTypesInReturnType = FALSE
    /\ serviceMethods = <<>>
    /\ NoSort
    /\ NoRun

\* the properties of a component schema with required lists, in declaration
\* order; the inline objects carry required lists of their own
RequiredUniverse ==
    << Prop(k_id, StringSchema),
       Prop(k_name, StringSchema),
       Prop(k_data, ObjectSchema(<<Prop(k_name, StringSchema),
                                   Prop(k_total, NumberSchema)>>, <<k_total>>)),
       Prop(k_kids, ArraySchema(ObjectSchema(
           <<Prop(k_id, StringSchema),
             Prop(k_data, ObjectSchema(<<Prop(k_tags, StringSchema)>>, <<k_tags>>))>>,
           <<k_data, k_id>>))) >>

\* the names a required list is made of; k_total is declared by no
\* component schema
RequiredNames == {k_id, k_name, k_data, k_total}

\* the required lists: sequences of at most MaxRequired different names
RequiredLists ==
    { r \in UNION { [1..n -> RequiredNames] : n \in 0..MaxRequired } :
        \A i, j \in DOMAIN r : r[i] = r[j] => i = j }

\* component schema A declaring the properties of S with the required list r
RequiredBody(S, r, shared) ==
    LET idx == SelectSeq([i \in DOMAIN RequiredUniverse |-> i], LAMBDA i : i \in S) IN
    [ObjectSchema([j \in DOMAIN idx |-> RequiredUniverse[idx[j]]], r)
        EXCEPT !.xShared = shared]

RequiredSpecs ==
    { <<Prop(n_A, RequiredBody(S, r, x))>> :
        S \in SUBSET DOMAIN RequiredUniverse, r \in RequiredLists, x \in BOOLEAN }

\* an inline response body with a required list
RequiredResponse == [PageBody EXCEPT !.required = <<k_total>>]

RequiredOperationSets ==
    { <<>>, <<Operation(op_get, <<Response(s_200, <<RequiredResponse>>)>>)>> }

InitRequired ==
    /\ spec \in RequiredSpecs
    /\ operations \in RequiredOperationSets
    /\ originalSpec = <<operations>>
    /\ Fresh

SpecRequired == InitRequired /\ [][Next]_vars

IsOptional == "@IsOptional()"

\* the property descriptor p carries all / none of the optional markers
MarkedOptional(p, key) ==
    /\ p.name = key \o <<"?">>
    /\ p.required = FALSE
    /\ IsOptional \in Range(p.decorators)
MarkedRequired(p, key) ==
    /\ p.name = key
    /\ p.required = TRUE
    /\ IsOptional \notin Range(p.decorators)

\* C14: a property of a resolved entity carries the optional markers (name
\* suffixed with ?, required flag false, @IsOptional()) if its name is not
\* in the required list of the schema that declares it, and none of them if
\* it is
C14_RequirednessPassesThrough ==
    \A c \in Passes : \A k \in DOMAIN c.origins :
        LET schema == mergeAllOf(SourceOf(c, c.origins[k]))
            dto == MapGet(c.allDtos, c.origins[k].key)
        IN  hasProperties(schema) =>
              /\ Len(dto.properties) = Len(entries(schema))
              /\ \A i \in DOMAIN entries(schema) :
                    IF entries(schema)[i].key \in Range(schema.required)
                    THEN MarkedRequired(dto.properties[i], entries(schema)[i].key)
                    ELSE MarkedOptional(dto.properties[i], entries(schema)[i].key)

\* C14 witness: an entity synthesized for an inline object has a required
\* and an optional property, and the required list of its parent names a
\* property the parent does not declare
C14_Witness ==
    \E c \in Passes : \E k \in DOMAIN c.origins :
        /\ c.origins[k].value = "nested"
        /\ \E p, q \in Range(MapGet(c.allDtos, c.origins[k].key).properties) :
              p.required /\ ~q.required
        /\ \E e \in Range(spec) :
              /\ hasProperties(e.value)
              /\ \E n \in Range(e.value.required) : n \notin Range(keys(e.value))

\* the suffix of the type of property i: none for an inline object, [] for
\* an array of inline objects
InlineSuffix(schema, i) ==
    IF isInlineObject(entries(schema)[i].value) THEN <<>> ELSE ArraySuffix

\* property i of the schema registered by origin o holds an inline object
\* that no component schema matches
Unmatched(schema, i) ==
    /\ InlineAt(schema, i) # <<>>
    /\ SameNames(InlineAt(schema, i)[1]) = <<>>

\* the number of entities named name that the pass emits
EmittedTimes(c, name) ==
    Cardinality({ j \in DOMAIN c.schemas : c.schemas[j].name = name })

----------------------------------------------------------------------------
(* topologicalSort on dependency maps of any shape *)

\* the number of dependency edges of a dependency map
MaxEdges == 3

\* the names of the entities of a dependency map; n_GetResponse is a name
\* that is never a key
NodeNames == <<n_A, n_B, n_AData>>

\* the import lists of an entity: any names without repetition, keys or not
DepLists ==
    { d \in UNION { [1..n -> Range(NodeNames) \cup {n_GetResponse}] :
                      n \in 0..MaxEdges } :
        \A i, j \in DOMAIN d : d[i] = d[j] => i = j }

\* the number of edges of the import lists d
RECURSIVE Edges(_)
Edges(d) == IF d = <<>> THEN 0 ELSE Len(d[1]) + Edges(Tail(d))

\* the dependency maps whose keys are the first n names
DependencyMaps ==
    UNION { { [i \in 1..n |-> [key |-> NodeNames[i], value |-> d[i]]] :
                d \in { e \in [1..n -> DepLists] : Edges(e) <= MaxEdges } } :
            n \in 0..Len(NodeNames) }

InitSort ==
    /\ sortDependencies \in DependencyMaps
    /\ sortResult = <<>>
    /\ spec = <<>>
    /\ operations = <<>>
    /\ originalSpec = <<>>
    /\ pc = "sort"
    /\ inlineResponseSchemas = <<>>
    /\ methods = <<>>
    /\ controllerImports = <<>>
    /\ NoEnums
    /\ sharedDtoContent = <<>>
    /\ resourceDtoContent = <<>>
    /\ includeErrorTypesInReturnType = FALSE
    /\ serviceMethods = <<>>
    /\ NoRun

\* one call of DtoGenerator.topologicalSort
TopologicalSort ==
    /\ pc = "sort"
    /\ sortResult' = <<topologicalSort(sortDependencies)>>
    /\ pc' = "done"
    /\ UNCHANGED <<spec, operations, originalSpec, methods, sharedDtoContent,
                   resourceDtoContent, inlineResponseSchemas,
                   includeErrorTypesInReturnType, serviceMethods, sortDependencies,
                   runVars, controllerImports, enumVars>>

NextSort == TopologicalSort

SpecSort == InitSort /\ [][NextSort]_vars

\* the state of the traversal when visit(node) is entered from the loop of
\* topologicalSort: the keys before it have been visited
StateBefore(k) ==
    topologicalSortLoop(SubSeq(sortDependencies, 1, k - 1), 1,
                        [result |-> <<>>, visited |-> {}, visiting |-> {}])

\* C20: topologicalSort returns, on every dependency map; its result holds
\* every key exactly once and nothing else; visiting a node that is on the
\* active path changes nothing
C20_SortTotalOnCycles ==
    pc = "done" =>
        /\ sortResult # <<>>
        /\ Range(sortResult[1]) = Range(MapKeys(sortDependencies))
        /\ Len(sortResult[1]) = Len(sortDependencies)
        /\ \A n \in Range(NodeNames) \cup {n_GetResponse} :
              \A path \in SUBSET Range(NodeNames) :
                  n \in path =>
                      LET st == [result |-> <<>>, visited |-> {}, visiting |-> path]
                      IN  visit(sortDependencies, n, st) = st

\* C20 witness: a sorted map with a self-loop and a cycle of two other keys
C20_Witness ==
    /\ pc = "done"
    /\ \E a, b, c \in Range(MapKeys(sortDependencies)) :
          /\ a # b /\ a # c /\ b # c
          /\ a \in Range(MapGet(sortDependencies, a))
          /\ c \in Range(MapGet(sortDependencies, b))
          /\ b \in Range(MapGet(sortDependencies, c))

----------------------------------------------------------------------------
(* GeneratorOrchestrator.generate: the spec files of a directory in turn *)

\* the number of spec files of a directory
MaxSpecs == 3

\* FileWriter.writeFile: the file is added to the files written
writeFile(fs, path, content) == Append(fs, [path |-> path, content |-> content])

\* DtoImporter.mergeSharedDtos: the shared contents in the order collected
mergeSharedDtos(contents) == contents

\* the documents of the spec files
DocUser ==
    [spec |-> <<Prop(n_A, ObjectSchema(
                   <<Prop(k_id, StringSchema),
                     Prop(k_status, EnumSchema(<<v_open, v_closed>>))>>, <<>>))>>,
     operations |-> <<>>]
DocPage ==
    [spec |-> <<>>,
     operations |-> <<Operation(op_get, <<Response(s_200, <<PageBody>>)>>)>>]
DocShared ==
    [spec |-> <<Prop(n_B, [ObjectSchema(<<Prop(k_name, StringSchema)>>, <<>>)
                              EXCEPT !.xShared = TRUE]),
                Prop(n_A, ObjectSchema(<<Prop(k_b, RefSchema(n_B))>>, <<>>))>>,
     operations |-> <<>>]
Documents == {DocUser, DocPage, DocShared}

\* a spec file: its document and what fails when it is processed: nothing,
\* parseSpec, or writeFile of its DTO file
SpecFiles ==
    { [doc |-> d, fails |-> f] : d \in Documents, f \in {"none", "write"} }
    \cup { [doc |-> [spec |-> <<>>, operations |-> <<>>], fails |-> "parse"] }

\* the spec files of a directory; the resource name of a file is its position
SpecPathLists == UNION { [1..n -> SpecFiles] : n \in 0..MaxSpecs }

\* generateFromSpec that carries the registry of the spec file before over
generateFromSpec_carry(file, resourceName, registry, fs, shared) ==
    LET dtos(r, fs1, split) ==
            [registry |-> r.registry,
             sharedDtoContents |->
                 IF split.sharedDtoContent # <<>>
                 THEN Append(shared, split.sharedDtoContent[1]) ELSE shared,
             files |->
                 IF split.resourceDtoContent # <<>> /\ file.fails # "write"
                 THEN writeFile(fs1, <<resourceName, "dto">>,
                                split.resourceDtoContent[1])
                 ELSE fs1,
             thrown |-> split.resourceDtoContent # <<>> /\ file.fails = "write"]
        controller(r) ==
            dtos(r,
                 writeFile(fs, <<resourceName, "controller">>,
                           templateMethods(r.methods, includeErrorTypesInReturnType)),
                 IF Len(file.doc.spec) > 0 \/ Len(r.registry) > 0
                 THEN generateAllDtosSplit(file.doc.spec, r.registry)
                 ELSE [sharedDtoContent |-> <<>>, resourceDtoContent |-> <<>>])
    IN  controller(extractMethods(file.doc.operations, <<file.doc.operations>>,
                                  1, <<>>, registry))

\* GeneratorOrchestrator.generateFromSpec for a spec file that parses: the
\* registry, the files written and the shared contents after it, and whether
\* it threw
generateFromSpec(file, resourceName, registry, fs, shared) ==
    LET dtos(r, fs1, split) ==
            [registry |-> r.registry,
             sharedDtoContents |->
                 IF split.sharedDtoContent # <<>>
                 THEN Append(shared, split.sharedDtoContent[1]) ELSE shared,
             files |->
                 IF split.resourceDtoContent # <<>> /\ file.fails # "write"
                 THEN writeFile(fs1, <<resourceName, "dto">>,
                                split.resourceDtoContent[1])
                 ELSE fs1,
             thrown |-> split.resourceDtoContent # <<>> /\ file.fails = "write"]
        controller(r) ==
            dtos(r,
                 writeFile(fs, <<resourceName, "controller">>,
                           templateMethods(r.methods, includeErrorTypesInReturnType)),
                 IF Len(file.doc.spec) > 0 \/ Len(r.registry) > 0
                 THEN generateAllDtosSplit(file.doc.spec, r.registry)
                 ELSE [sharedDtoContent |-> <<>>, resourceDtoContent |-> <<>>])
    IN  controller(extractMethods(file.doc.operations, <<file.doc.operations>>,
                                  1, <<>>, clearInlineResponseSchemas(registry)))

InitRun ==
    /\ specPaths \in SpecPathLists
    /\ cursor = 0
    /\ files = <<>>
    /\ sharedDtoContents = <<>>
    /\ log = <<>>
    /\ outcome = "pending"
    /\ inlineResponseSchemas = <<>>
    /\ spec = <<>>
    /\ operations = <<>>
    /\ originalSpec = <<>>
    /\ pc = "run"
    /\ methods = <<>>
    /\ controllerImports = <<>>
    /\ NoEnums
    /\ sharedDtoContent = <<>>
    /\ resourceDtoContent = <<>>
    /\ includeErrorTypesInReturnType = FALSE
    /\ serviceMethods = <<>>
    /\ NoSort

\* generate() finds no spec file: it warns and returns
NoSpecs ==
    /\ outcome = "pending"
    /\ Len(specPaths) = 0
    /\ log' = Append(log, "warn")
    /\ outcome' = "resolved"
    /\ UNCHANGED <<docVars, inlineResponseSchemas, includeErrorTypesInReturnType,
                   serviceMethods, sortVars, enumVars, specPaths, cursor, files,
                   sharedDtoContents>>

\* ParseFails that logs the error and goes on with the next spec file
ParseFails_continue ==
    /\ outcome = "pending"
    /\ cursor < Len(specPaths)
    /\ specPaths[cursor + 1].fails = "parse"
    /\ cursor' = cursor + 1
    /\ log' = log \o <<"info", "error">>
    /\ UNCHANGED <<docVars, inlineResponseSchemas, includeErrorTypesInReturnType,
                   serviceMethods, sortVars, enumVars, specPaths, files, sharedDtoContents,
                   outcome>>

\* the loop of generate() takes a spec file that parseSpec rejects: the
\* error is logged and generate() rejects with it
ParseFails ==
    /\ outcome = "pending"
    /\ cursor < Len(specPaths)
    /\ specPaths[cursor + 1].fails = "parse"
    /\ cursor' = cursor + 1
    /\ log' = log \o <<"info", "error">>
    /\ outcome' = "rejected"
    /\ UNCHANGED <<docVars, inlineResponseSchemas, includeErrorTypesInReturnType,
                   serviceMethods, sortVars, enumVars, specPaths, files, sharedDtoContents>>

\* the loop of generate() takes a spec file that parses: generateFromSpec;
\* if it throws, the error is logged and generate() rejects with it
GenerateFromSpec ==
    /\ outcome = "pending"
    /\ cursor < Len(specPaths)
    /\ specPaths[cursor + 1].fails # "parse"
    /\ cursor' = cursor + 1
    /\ LET write(r) ==
               /\ inlineResponseSchemas' = r.registry
               /\ files' = r.files
               /\ sharedDtoContents' = r.sharedDtoContents
               /\ log' = log \o (IF r.thrown THEN <<"info", "error">> ELSE <<"info">>)
               /\ outcome' = IF r.thrown THEN "rejected" ELSE "pending"
       IN  write(generateFromSpec(specPaths[cursor + 1], cursor + 1,
                                  inlineResponseSchemas, files, sharedDtoContents))
    /\ UNCHANGED <<docVars, includeErrorTypesInReturnType, serviceMethods,
                   sortVars, enumVars, specPaths>>

\* after the last spec file: the shared DTO file is merged and written
WriteShared ==
    /\ outcome = "pending"
    /\ Len(specPaths) > 0
    /\ cursor = Len(specPaths)
    /\ files' = IF Len(sharedDtoContents) > 0
                THEN writeFile(files, <<0, "shared">>,
                               mergeSharedDtos(sharedDtoContents))
                ELSE files
    /\ log' = Append(log, "success")
    /\ outcome' = "resolved"
    /\ UNCHANGED <<docVars, inlineResponseSchemas, includeErrorTypesInReturnType,
                   serviceMethods, sortVars, enumVars, specPaths, cursor, sharedDtoContents>>

NextRun == NoSpecs \/ ParseFails \/ GenerateFromSpec \/ WriteShared

SpecRun == InitRun /\ [][NextRun]_vars

----------------------------------------------------------------------------
(* Properties of generate() *)

\* the DTO files written so far
DtoFiles == { i \in DOMAIN files : files[i].path[2] = "dto" }

\* the document of the spec file a written file belongs to
DocOf(file) == specPaths[file.path[1]].doc

\* the resource DTO output of a document that is generated on its own
AloneResource(doc) ==
    generateAllDtosSplit(
        doc.spec,
        extractMethods(doc.operations, <<doc.operations>>, 1, <<>>, <<>>).registry
    ).resourceDtoContent

\* C12: the resource DTO output written for a spec file holds exactly what a
\* generation of that spec file alone yields (entities, inline response
\* DTOs, nested names, dependencies and enums), whatever was processed before
C12_NothingFromEarlierSpecs ==
    \A i \in DtoFiles : <<files[i].content>> = AloneResource(DocOf(files[i]))

\* a DTO file written for a document without operations after a document
\* that registered an inline response DTO
C12_Witness ==
    \E i \in DtoFiles :
        /\ DocOf(files[i]).operations = <<>>
        /\ \E j \in 1..(files[i].path[1] - 1) : specPaths[j].doc = DocPage

\* C13: two passes over the same document in one run yield the same entity
\* names in the same emission order, the same enum names and the same
\* property order in every entity
C13_SameTreeSameOutput ==
    \A i, j \in DtoFiles :
        DocOf(files[i]) = DocOf(files[j]) =>
            /\ Names(files[i].content.schemas) = Names(files[j].content.schemas)
            /\ Names(files[i].content.enums) = Names(files[j].content.enums)
            /\ \A k \in DOMAIN files[i].content.schemas :
                   Names(files[i].content.schemas[k].properties)
                       = Names(files[j].content.schemas[k].properties)

\* the same document processed twice, with an entity of two properties and
\* an enum, and a document with an inline response DTO in between
C13_Witness ==
    \E i, j \in DtoFiles :
        /\ files[i].path[1] + 1 < files[j].path[1]
        /\ DocOf(files[i]) = DocUser
        /\ DocOf(files[j]) = DocUser
        /\ specPaths[files[i].path[1] + 1].doc = DocPage
        /\ Len(files[j].content.enums) > 0

\* the spec file taken last failed
Failed == cursor > 0 /\ specPaths[cursor].fails # "none"

IsPrefix(s, t) == Len(s) <= Len(t) /\ SubSeq(t, 1, Len(s)) = s

\* C17: when a spec file fails, generate() rejects after logging the error;
\* no file of a later spec file and no shared DTO file is written, nothing
\* happens after the rejection, and the files written before remain
C17_FailureRejects ==
    /\ [](Failed =>
            /\ outcome = "rejected"
            /\ log # <<>> /\ log[Len(log)] = "error"
            /\ \A i \in DOMAIN files :
                   files[i].path[2] # "shared" /\ files[i].path[1] <= cursor)
    /\ [](outcome = "rejected" => Failed)
    /\ [][~Failed /\ IsPrefix(files, files')]_vars

\* the second of three spec files fails after the first was written and
\* shared content was collected
C17_Witness ==
    /\ outcome = "rejected"
    /\ cursor = 2
    /\ Len(specPaths) = 3
    /\ Len(files) > 0
    /\ Len(sharedDtoContents) > 0

----------------------------------------------------------------------------
(* Controllers and services of operations with parameters, a request body
   and several responses, against an original document of any shape *)

\* the number of responses of an operation
MaxResponses == 2

\* the number of parameters of an operation
MaxParams == 2

\* component schema A after dereferencing
InlineA == ObjectSchema(<<Prop(k_id, StringSchema)>>, <<>>)

\* the JSON schema of a payload, in the parsed and in the original document
BundledPayloads ==
    { InlineA, ObjectSchema(<<Prop(k_name, StringSchema)>>, <<>>),
      ArraySchema(InlineA), ArraySchema(RefSchema(n_A)), StringSchema }
OriginalPayloads == { RefSchema(n_A), ArraySchema(RefSchema(n_A)), InlineA }

\* an optional value: absent or present
Optional(S) == { <<>> } \cup { <<x>> : x \in S }

\* the status codes of responses, as Object.entries orders integer keys
Statuses == <<s_200, <<"2","0","1">>, <<"4","0","4">>>>

\* the responses of an operation in Object.entries order
ResponseLists ==
    LET nth(S, k) == CHOOSE i \in S : Cardinality({ j \in S : j < i }) = k - 1
    IN  UNION { { [k \in 1..Cardinality(S) |->
                      Response(Statuses[nth(S, k)], f[nth(S, k)])] :
                  f \in [S -> Optional(BundledPayloads)] } :
                S \in { T \in SUBSET DOMAIN Statuses : Cardinality(T) <= MaxResponses } }

\* the parameters of an operation
ParameterLists ==
    LET names(in) == IF in = <<"h","e","a","d","e","r">>
                     THEN { <<"a","-","b">>, <<"b">> } ELSE { <<"a">>, <<"b">> }
        params == UNION { { [name |-> n, in |-> in, required |-> r, schema |-> <<>>] :
                            n \in names(in), r \in BOOLEAN } :
                          in \in { <<"p","a","t","h">>, <<"q","u","e","r","y">>,
                                   <<"h","e","a","d","e","r">>,
                                   <<"c","o","o","k","i","e">> } }
    IN  UNION { [1..n -> params] : n \in 0..MaxParams }

\* spec._originalSpec: absent, or one operation, or two operations of one
\* operationId of which the first has no payload
OriginalSpecs ==
    LET ops == { [operationId |-> id, parameters |-> <<>>, requestBody |-> b,
                  responses |-> <<Response(s_200, r)>>] :
                 id \in { op_get, <<"l","i","s","t">> },
                 b \in Optional(OriginalPayloads), r \in Optional(OriginalPayloads) }
    IN  { <<>> } \cup { <<<<o>>>> : o \in ops }
        \cup { <<<<Operation(op_get, <<Response(s_200, <<>>)>>), o>>>> :
               o \in { x \in ops : x.operationId = op_get } }

\* the operations, the original document and the configuration of a run
ControllerInputs ==
    { [operations |-> <<Operation(op_get, rs)>>, originalSpec |-> o, include |-> e] :
      rs \in ResponseLists, o \in OriginalSpecs, e \in BOOLEAN }
    \cup { [operations |-> <<[operationId |-> op_get, parameters |-> <<>>,
                              requestBody |-> <<b>>,
                              responses |-> <<Response(s_200, <<>>)>>]>>,
            originalSpec |-> o, include |-> FALSE] :
           b \in BundledPayloads, o \in OriginalSpecs }
    \cup { [operations |-> <<[operationId |-> op_get, parameters |-> ps,
                              requestBody |-> b,
                              responses |-> <<Response(s_200, <<>>)>>]>>,
            originalSpec |-> <<>>, include |-> FALSE] :
           ps \in ParameterLists, b \in Optional({InlineA}) }

InitController ==
    /\ \E in \in ControllerInputs :
          /\ operations = in.operations
          /\ originalSpec = in.originalSpec
          /\ includeErrorTypesInReturnType = in.include
    /\ spec = <<Prop(n_A, InlineA)>>
    /\ pc = "controller"
    /\ inlineResponseSchemas = <<>>
    /\ methods = <<>>
    /\ controllerImports = <<>>
    /\ NoEnums
    /\ sharedDtoContent = <<>>
    /\ resourceDtoContent = <<>>
    /\ serviceMethods = <<>>
    /\ NoSort
    /\ NoRun

\* generateFromSpec with generateServices: ServiceGenerator.generateService
GenerateService ==
    /\ pc = "done"
    /\ serviceMethods' = ServiceGenerator_extractMethods(operations, originalSpec)
    /\ pc' = "serviced"
    /\ UNCHANGED <<spec, operations, originalSpec, inlineResponseSchemas, methods,
                   sharedDtoContent, resourceDtoContent, controllerImports,
                   includeErrorTypesInReturnType, sortVars, enumVars, runVars>>

NextController == GenerateController \/ GenerateDtos \/ GenerateService

SpecController == InitController /\ [][NextController]_vars

----------------------------------------------------------------------------
(* Properties of the generated controller and service methods *)

\* the operations of the original document with an operationId
OriginalOps(id) ==
    IF originalSpec = <<>> THEN <<>>
    ELSE SelectSeq(originalSpec[1], LAMBDA o : o.operationId = id)

\* the JSON schema of the selected payload of an original operation, if any
PayloadOf(o, type, status) ==
    IF type = "requestBody" THEN o.requestBody
    ELSE LET rs == SelectSeq(o.responses, LAMBDA r : r.status = status)
         IN  IF rs = <<>> THEN <<>> ELSE rs[1].schema

\* no operation with the operationId, or no such payload, or a payload
\* schema without a $ref of its own
NoOwnRef(id, type, status) ==
    \A o \in Range(OriginalOps(id)) :
        \/ PayloadOf(o, type, status) = <<>>
        \/ PayloadOf(o, type, status)[1].ref = <<>>

\* a response schema that is an array whose items are a $ref
IsRefArray(schema) ==
    schema.type = t_array /\ schema.items # <<>> /\ schema.items[1].ref # <<>>

\* as NoOwnRef, and a response payload is no array of $ref items either
NoRef(id, type, status) ==
    \A o \in Range(OriginalOps(id)) :
        \/ PayloadOf(o, type, status) = <<>>
        \/ /\ PayloadOf(o, type, status)[1].ref = <<>>
           /\ ~(type = "response" /\ IsRefArray(PayloadOf(o, type, status)[1]))

\* the methods of the operations when there is no original document
Bundled == extractMethods(operations, <<>>, 1, <<>>, <<>>).methods

\* whenever absent(id, type, status) holds the lookup returns none and the
\* type of the payload is the one derived without an original document
LookupNone(absent(_, _, _)) ==
    pc # "controller" =>
        \A i \in DOMAIN operations :
            LET id == operations[i].operationId IN
            /\ (operations[i].requestBody # <<>> /\ absent(id, "requestBody", <<>>)) =>
                  /\ findOriginalSchemaRef(originalSpec, id, "requestBody", <<>>) = <<>>
                  /\ methods[i].bodyParam = Bundled[i].bodyParam
            /\ \A k \in DOMAIN operations[i].responses :
                  (/\ operations[i].responses[k].schema # <<>>
                   /\ absent(id, "response", operations[i].responses[k].status)) =>
                      /\ findOriginalSchemaRef(originalSpec, id, "response",
                             operations[i].responses[k].status) = <<>>
                      /\ methods[i].responses[k].type = Bundled[i].responses[k].type

\* C11 as stated: the lookup returns none when the original document has no
\* operation with the operationId, or the operation lacks the payload, or
\* the payload's schema has no $ref; the type then comes from the parsed
\* schema alone
C11_LookupNoneWithoutOwnRef == LookupNone(NoOwnRef)

\* C11: the lookup returns none when the original document has no operation
\* with the operationId, or the operation lacks the payload, or the
\* payload's schema has no $ref and, for a response, is no array of $ref
\* items; the type then comes from the parsed schema alone
C11_LookupNoneWithoutRef == LookupNone(NoRef)

\* the original operation has the response but its schema has no $ref, and
\* the parsed response, an array of $ref items, is typed from its own schema
C11_Witness ==
    /\ pc # "controller"
    /\ originalSpec # <<>>
    /\ \E i \in DOMAIN operations : \E k \in DOMAIN operations[i].responses :
          LET r == operations[i].responses[k] IN
          /\ r.schema = <<ArraySchema(RefSchema(n_A))>>
          /\ NoRef(operations[i].operationId, "response", r.status)
          /\ \E o \in Range(OriginalOps(operations[i].operationId)) :
                PayloadOf(o, "response", r.status) = <<InlineA>>
          /\ methods[i].responses[k].type = n_A \o Dto \o ArraySuffix

\* the responses getReturnType considers
Considered(m) ==
    IF includeErrorTypesInReturnType THEN m.responses
    ELSE SelectSeq(m.responses, LAMBDA r : r.status >= 200 /\ r.status < 300)

\* the types of the considered responses other than 'void' and 'any'
Typed(m) ==
    { Considered(m)[i].type : i \in DOMAIN Considered(m) } \ { t_void, t_any }

\* the position of the first considered response of a type
FirstOf(m, t) ==
    CHOOSE i \in DOMAIN Considered(m) :
        /\ Considered(m)[i].type = t
        /\ \A j \in 1..(i - 1) : Considered(m)[j].type # t

\* C15: the return type of a controller method is the ' | '-joined list of
\* the distinct types of the considered responses other than 'void' and
\* 'any', in response order; 'void' when every considered response is
\* 'void' or there is none; 'any' when the typed ones are all 'any'
C15_ReturnTypeUnion ==
    pc # "controller" =>
        \A i \in DOMAIN methods :
            LET m == methods[i] IN
            IF Typed(m) # {} THEN
                \E u \in [1..Cardinality(Typed(m)) -> Typed(m)] :
                    /\ \A a, b \in DOMAIN u :
                          a < b => FirstOf(m, u[a]) < FirstOf(m, u[b])
                    /\ m.returnType = join(u, <<" ","|"," ">>)
            ELSE IF \A k \in DOMAIN Considered(m) : Considered(m)[k].type = t_void
            THEN m.returnType = t_void
            ELSE m.returnType = t_any

\* a method with two responses of one type and a method whose error
\* response adds a type to the union
C15_Witness ==
    /\ pc # "controller"
    /\ \E i \in DOMAIN methods :
          /\ Len(methods[i].responses) = 2
          /\ methods[i].responses[1].type = methods[i].responses[2].type
          /\ methods[i].responses[1].type = methods[i].returnType
          /\ methods[i].returnType \notin { t_void, t_any }

\* the order of the parameter kinds: path, body, query, header, other
KindOrder(param) ==
    LET kinds == << <<"p","a","t","h">>, <<"b","o","d","y">>,
                    <<"q","u","e","r","y">>, <<"h","e","a","d","e","r">> >>
    IN  IF \E n \in DOMAIN kinds : kinds[n] = param.parameterType
        THEN CHOOSE n \in DOMAIN kinds : kinds[n] = param.parameterType
        ELSE 5

\* C16: the sorted parameters of a controller method are its parameters and
\* its body as a required parameter; no optional one precedes a required
\* one; of equal required-ness, they follow the order path, body, query,
\* header, other; equal in both, they are ordered by name
C16_ParameterOrder ==
    pc # "controller" =>
        \A i \in DOMAIN methods :
            LET p == methods[i].allParameters IN
            /\ Len(p) = Len(methods[i].parameters)
                        + (IF methods[i].bodyParam # <<>> THEN 1 ELSE 0)
            /\ \A x \in Range(methods[i].parameters) : x \in Range(p)
            /\ methods[i].bodyParam # <<>> =>
                  \E k \in DOMAIN p : p[k].parameterType = <<"b","o","d","y">>
                                      /\ p[k].required
            /\ \A a, b \in DOMAIN p :
                  a < b =>
                      /\ p[a].required \/ ~p[b].required
                      /\ p[a].required = p[b].required =>
                            KindOrder(p[a]) <= KindOrder(p[b])
                      /\ (/\ p[a].required = p[b].required
                          /\ KindOrder(p[a]) = KindOrder(p[b])) =>
                            localeCompare(p[a].name, p[b].name) <= 0

\* a method with a body declared after a required query parameter and an
\* optional header: the body comes first
C16_Witness ==
    /\ pc # "controller"
    /\ \E i \in DOMAIN methods :
          LET p == methods[i].allParameters IN
          /\ Len(p) = 3
          /\ p[1].parameterType = <<"b","o","d","y">>
          /\ p[2].parameterType = <<"q","u","e","r","y">> /\ p[2].required
          /\ p[3].parameterType = <<"h","e","a","d","e","r">> /\ ~p[3].required
          /\ p[3].name = <<"a","B","?">>

\* the first success response of an operation, if any
FirstSuccess(operation) ==
    SelectSeq(operation.responses, LAMBDA r : isSuccess(r.status))

\* C18: the service method of an operation whose first success response is
\* an array of $ref items to X returns XDto[], whether or not the lookup
\* finds an original reference
C18_ServiceArrayReturnType ==
    pc = "serviced" =>
        \A i \in DOMAIN operations :
            (/\ FirstSuccess(operations[i]) # <<>>
             /\ FirstSuccess(operations[i])[1].schema # <<>>
             /\ IsRefArray(FirstSuccess(operations[i])[1].schema[1])) =>
                serviceMethods[i].returnType
                    = refName(FirstSuccess(operations[i])[1].schema[1].items[1])
                      \o Dto \o ArraySuffix

----------------------------------------------------------------------------
(* Nested entities of response entities *)

\* C21: for an inline object without structural match, an entity synthesized
\* for a response body has the untyped marker as the property type and no
\* nested entity is registered or emitted; an entity of a component schema
\* has the synthesized nested entity as the property type, emitted once
C21_ResponseEntitiesStayFlat ==
    \A c \in Passes : \A k \in DOMAIN c.origins :
        LET schema == mergeAllOf(SourceOf(c, c.origins[k]))
            dto == MapGet(c.allDtos, c.origins[k].key)
        IN  hasProperties(schema) => \A i \in DOMAIN entries(schema) :
              Unmatched(schema, i) =>
                LET name == SynthesizedName(c.origins[k].key, schema, i) IN
                /\ c.origins[k].value = "inline" =>
                      /\ dto.properties[i].type = t_any \o InlineSuffix(schema, i)
                      /\ ~MapHas(c.nestedDtoSchemas, name)
                      /\ EmittedTimes(c, name) = 0
                /\ c.origins[k].value = "component" =>
                      /\ dto.properties[i].type = name \o InlineSuffix(schema, i)
                      /\ EmittedTimes(c, name) = 1

----------------------------------------------------------------------------
(* The inline response registry of one controller generation *)

\* response k of operation i is an inline object that getSchemaType names
\* and registers: no original reference is found for it
RegisteredInline(i, k) ==
    LET r == operations[i].responses[k] IN
    /\ r.schema # <<>>
    /\ isInlineObject(r.schema[1])
    /\ operations[i].operationId # <<>>
    /\ findOriginalSchemaRef(originalSpec, operations[i].operationId,
                             "response", r.status) = <<>>

\* C28: two responses of one operation with different inline object schemas
\* have different inline response DTO names, and the registry holds under
\* the name of each response the schema of that response
C28_InlineResponseNamesDistinct ==
    pc # "controller" =>
        \A i \in DOMAIN operations : \A k, l \in DOMAIN operations[i].responses :
            (RegisteredInline(i, k) /\ RegisteredInline(i, l)) =>
                /\ operations[i].responses[k].schema # operations[i].responses[l].schema
                      => methods[i].responses[k].type # methods[i].responses[l].type
                /\ MapGet(inlineResponseSchemas, methods[i].responses[k].type)
                      = operations[i].responses[k].schema[1]

----------------------------------------------------------------------------
(* The DTO imports of a controller *)

\* the base types of the request body, the responses and the return-type
\* members of the methods
BaseTypes ==
    UNION { (IF methods[i].bodyParam # <<>>
             THEN { stripSuffix(methods[i].bodyParam[1].type, ArraySuffix) } ELSE {})
            \cup { stripSuffix(methods[i].responses[k].type, ArraySuffix) :
                   k \in DOMAIN methods[i].responses }
            \cup { stripSuffix(t, ArraySuffix) :
                   t \in Range(splitOn(methods[i].returnType, <<" ","|"," ">>)) } :
            i \in DOMAIN methods }

\* C29: every name of the local and the shared import list of a controller
\* is an entity name that is the base type of a request body, a response or
\* a return-type member; no scalar type name, array suffix, 'void' or 'any'
C29_ImportsAreEntityNames ==
    controllerImports # <<>> =>
        \A name \in Range(controllerImports[1].localDtos)
                    \cup Range(controllerImports[1].sharedDtosUsed) :
            /\ name \in BaseTypes
            /\ endsWith(name, Dto)
            /\ name \notin { t_string, t_number, t_boolean, t_void, t_any }
            /\ ~endsWith(name, ArraySuffix)

----------------------------------------------------------------------------
(* generate() called again on the same orchestrator *)

\* the number of generate() calls on one orchestrator
MaxCalls == 2

\* the generate() calls that have completed
Completed == Len(SelectSeq(log, LAMBDA e : e \in {"warn", "success", "error"}))

\* generate() is called again after a call has completed: the directory is
\* read anew; the fields of the orchestrator and of its generators stay
GenerateAgain ==
    /\ outcome # "pending"
    /\ Completed < MaxCalls
    /\ cursor' = 0
    /\ outcome' = "pending"
    /\ UNCHANGED <<docVars, inlineResponseSchemas, includeErrorTypesInReturnType,
                   serviceMethods, sortVars, enumVars, specPaths, files,
                   sharedDtoContents, log>>

NextAgain == NextRun \/ GenerateAgain

SpecAgain == InitRun /\ [][NextAgain]_vars

\* C30: when a call of generate() has completed, the shared DTO contents
\* handed to the merge hold one entry for each spec file with shared schemas
\* of that call
C30_SharedContentsPerCall ==
    (outcome = "resolved" /\ Len(specPaths) > 0) =>
        Len(sharedDtoContents)
            = Cardinality({ i \in DOMAIN specPaths :
                              splitSchemas(specPaths[i].doc.spec).sharedSchemas # <<>> })

----------------------------------------------------------------------------
(* The names of nested entities and the shared imports of a pass *)

\* the positions of a pass that hold an inline object without structural
\* match: the registered entity k and its property i
UnmatchedPositions(c) ==
    { p \in (DOMAIN c.origins) \X (1..MaxProps) :
        LET schema == mergeAllOf(SourceOf(c, c.origins[p[1]])) IN
        /\ hasProperties(schema)
        /\ p[2] \in DOMAIN entries(schema)
        /\ Unmatched(schema, p[2]) }

\* the name synthesized for position p and the inline object it holds
NameAt(c, p) ==
    SynthesizedName(c.origins[p[1]].key, mergeAllOf(SourceOf(c, c.origins[p[1]])), p[2])
SchemaAt(c, p) == InlineAt(mergeAllOf(SourceOf(c, c.origins[p[1]])), p[2])[1]

\* C25: in a pass two positions with differing inline objects are given
\* different synthesized names, no synthesized name is the entity name of a
\* component schema, and the nested registry holds every inline object under
\* its synthesized name
C25_NestedNamesCollisionFree ==
    \A c \in Passes : \A p \in UnmatchedPositions(c) :
        /\ \A q \in UnmatchedPositions(c) :
              SchemaAt(c, p) # SchemaAt(c, q) => NameAt(c, p) # NameAt(c, q)
        /\ \A e \in Range(spec) : e.key \o Dto # NameAt(c, p)
        /\ MapGet(c.nestedDtoSchemas, NameAt(c, p)) = SchemaAt(c, p)
        /\ [key |-> NameAt(c, p), value |-> "nested"] \in Range(c.origins)

\* C27: no pass imports from the shared file an entity that it emits
C27_EmittedNotImported ==
    \A c \in Passes : Range(c.dtoImports) \cap Range(Names(c.schemas)) = {}

----------------------------------------------------------------------------
(* Component schemas composed with allOf, and inline objects with the
   property names of their own entity *)

AllOfSchema(members) == [NoSchema EXCEPT !.allOf = <<members>>]

M_idName ==
    ObjectSchema(<<Prop(k_id, StringSchema), Prop(k_name, StringSchema)>>, <<k_id>>)
M_idNumber == ObjectSchema(<<Prop(k_id, NumberSchema)>>, <<k_id, k_name>>)
M_status ==
    ObjectSchema(<<Prop(k_status, EnumSchema(<<v_open, v_closed>>))>>, <<k_status>>)
\* data holds an inline object, or an array of inline objects, that
\* declares the property names of the schema around it
M_self ==
    ObjectSchema(<<Prop(k_data, ObjectSchema(<<Prop(k_data, StringSchema)>>, <<>>))>>,
                 <<>>)
M_selfItems ==
    ObjectSchema(<<Prop(k_data,
                        ArraySchema(ObjectSchema(<<Prop(k_data, StringSchema)>>, <<>>)))>>,
                 <<>>)
M_nested == AllOfSchema(<<M_idName, M_idNumber>>)

\* the members of an allOf list
Members ==
    { M_idName, M_idNumber, M_status, M_self, M_selfItems, M_nested, RefSchema(n_B) }

\* the schema of component A
ShapeBodies ==
    (Members \ { RefSchema(n_B) })
    \cup { AllOfSchema(<<m>>) : m \in Members }
    \cup { AllOfSchema(<<m1, m2>>) : m1, m2 \in Members }

ShapeSpecs ==
    { <<Prop(n_A, b)>> : b \in ShapeBodies }
    \cup { <<Prop(n_A, b), Prop(n_B, M_idNumber)>> : b \in ShapeBodies }

ShapeOperationSets ==
    { <<>>, <<Operation(op_get, <<Response(s_200, <<M_self>>)>>)>> }

InitShapes ==
    /\ spec \in ShapeSpecs
    /\ operations \in ShapeOperationSets
    /\ originalSpec = <<operations>>
    /\ Fresh

SpecShapes == InitShapes /\ [][Next]_vars

\* the members of the allOf list of a schema
MembersOf(schema) == schema.allOf[1]

\* the property names, the required names and the definition of a property
\* that the members of a schema contribute, a member with an allOf list of
\* its own by its members
RECURSIVE MemberKeys(_)
MemberKeys(schema) ==
    IF schema.allOf # <<>>
    THEN UNION { MemberKeys(MembersOf(schema)[i]) : i \in DOMAIN MembersOf(schema) }
    ELSE IF hasProperties(schema) THEN Range(keys(schema)) ELSE {}

RECURSIVE MemberRequired(_)
MemberRequired(schema) ==
    IF schema.allOf # <<>>
    THEN UNION { MemberRequired(MembersOf(schema)[i]) : i \in DOMAIN MembersOf(schema) }
    ELSE Range(schema.required)

RECURSIVE MemberDefinition(_, _)
MemberDefinition(schema, key) ==
    IF schema.allOf # <<>>
    THEN LET declaring == { i \in DOMAIN MembersOf(schema) :
                              key \in MemberKeys(MembersOf(schema)[i]) }
             last == CHOOSE i \in declaring : \A j \in declaring : j <= i
         IN  MemberDefinition(MembersOf(schema)[last], key)
    ELSE MapGet(entries(schema), key)

\* s names nothing twice
NoDuplicates(s) == \A i, j \in DOMAIN s : s[i] = s[j] => i = j

\* C23: the schema merged from an allOf list declares the properties of all
\* members, each with the definition of the last member that declares it,
\* and requires the names the members require, each once; merging the merged
\* schema again changes nothing; the entity is resolved from the merged schema
C23_AllOfMerged ==
    \A e \in Range(spec) : e.value.allOf # <<>> =>
        /\ hasProperties(mergeAllOf(e.value))
        /\ Range(keys(mergeAllOf(e.value))) = MemberKeys(e.value)
        /\ NoDuplicates(keys(mergeAllOf(e.value)))
        /\ \A key \in MemberKeys(e.value) :
              MapGet(entries(mergeAllOf(e.value)), key) = MemberDefinition(e.value, key)
        /\ Range(mergeAllOf(e.value).required) = MemberRequired(e.value)
        /\ NoDuplicates(mergeAllOf(e.value).required)
        /\ mergeAllOf(mergeAllOf(e.value)) = mergeAllOf(e.value)
        /\ \A c \in Passes : MapHas(c.allDtos, e.key \o Dto) =>
              /\ Len(MapGet(c.allDtos, e.key \o Dto).properties)
                    = Cardinality(MemberKeys(e.value))
              /\ \A key \in MemberKeys(e.value) :
                    \E p \in Range(MapGet(c.allDtos, e.key \o Dto).properties) :
                        IF key \in MemberRequired(e.value)
                        THEN MarkedRequired(p, key) ELSE MarkedOptional(p, key)

\* C23 witness: an entity has been resolved from an allOf list of which one
\* member has an allOf list of its own and two members define a property
\* differently
C23_Witness ==
    /\ pc = "done"
    /\ \E e \in Range(spec) :
          /\ e.value.allOf # <<>>
          /\ \E c \in Passes : MapHas(c.allDtos, e.key \o Dto)
          /\ \E i, j \in DOMAIN MembersOf(e.value) :
                /\ i < j
                /\ MembersOf(e.value)[i].allOf # <<>>
                /\ \E key \in MemberKeys(MembersOf(e.value)[i])
                                \cap MemberKeys(MembersOf(e.value)[j]) :
                      MemberDefinition(MembersOf(e.value)[i], key)
                          # MemberDefinition(MembersOf(e.value)[j], key)

C26_NoSelfImport ==
    \A c \in Passes :
        /\ \A d \in Range(c.schemas) : d.name \notin Range(d.imports)
        /\ \A e \in Range(c.dependencies) : e.key \notin Range(e.value)

----------------------------------------------------------------------------
(* DtoGenerator.collectEnumsForTemplate on schema objects that are shared
   or lie on a cycle *)

\* the number of properties that hold an object or an array of objects
MaxEnumEdges == 3

\* the schema objects with properties; the call is made on RootNode
EnumNodes == {1, 2, 3}
NodeOrder == <<1, 2, 3>>
RootNode == NodeOrder[1]

\* the name of the property that holds an object, by the object held
NodeKeys == <<k_a, k_b, k_kids>>
\* the values of the string enum that an object declares as property status
LeafValues == <<<<v_open>>, <<v_closed>>, <<v_a_b>>>>

\* a property of from holds the object to, or an array with the items to
EnumEdges == [from : EnumNodes, to : EnumNodes, via : {"property", "items"}]

\* the objects held, directly or through others, by the root
Held(E, S) == S \cup { e.to : e \in { d \in E : d.from \in S } }
UnderRoot(E) == Held(E, Held(E, {RootNode}))

\* the object graphs below the root: edges says which object holds which,
\* enums which objects declare the enum property (none, the root, or all)
EnumGraphs ==
    UNION { { [edges |-> E, enums |-> L] : L \in {{}, {RootNode}, UnderRoot(E)} } :
              E \in { F \in SUBSET EnumEdges :
                        /\ Cardinality(F) <= MaxEnumEdges
                        /\ \A e, f \in F : (e.from = f.from /\ e.to = f.to) => e = f
                        /\ \A e \in F : e.from \in UnderRoot(F) } }

\* Object.entries(schema.properties) of the object n
propertiesOf(graph, n) ==
    LET targets == SelectSeq(NodeOrder, LAMBDA t :
                       \E e \in graph.edges : e.from = n /\ e.to = t)
        edge(t) == CHOOSE e \in graph.edges : e.from = n /\ e.to = t
    IN  (IF n \in graph.enums
         THEN <<[key |-> k_status, kind |-> "enum", to |-> n]>> ELSE <<>>)
        \o [j \in DOMAIN targets |->
              [key |-> NodeKeys[targets[j]], kind |-> edge(targets[j]).via,
               to |-> targets[j]]]

\* the frame of a call: the object, the index of the next property and the
\* local list enums
Frame(n) == [node |-> n, i |-> 1, enums |-> <<>>]

\* the innermost frame moves to the next property, with the enums given
advance(stack, enums) ==
    [stack EXCEPT ![Len(stack)] = [@ EXCEPT !.i = @ + 1, !.enums = enums]]

InitEnums ==
    /\ enumGraph \in EnumGraphs
    /\ enumStack = <<>>
    /\ enumVisited = {}
    /\ enumExpanded = [n \in EnumNodes |-> 0]
    /\ enumResult = <<>>
    /\ pc = "enums"
    /\ spec = <<>>
    /\ operations = <<>>
    /\ originalSpec = <<>>
    /\ inlineResponseSchemas = <<>>
    /\ methods = <<>>
    /\ controllerImports = <<>>
    /\ sharedDtoContent = <<>>
    /\ resourceDtoContent = <<>>
    /\ includeErrorTypesInReturnType = FALSE
    /\ serviceMethods = <<>>
    /\ NoSort
    /\ NoRun

\* what a step of collectEnumsForTemplate leaves alone
EnumFrame ==
    UNCHANGED <<spec, operations, originalSpec, methods, sharedDtoContent,
                resourceDtoContent, controllerImports, inlineResponseSchemas,
                includeErrorTypesInReturnType, serviceMethods, sortVars, runVars,
                enumGraph>>

\* the top-level call: a new visited set, the root is added
EnumCall ==
    /\ pc = "enums"
    /\ enumVisited' = {RootNode}
    /\ enumExpanded' = [enumExpanded EXCEPT ![RootNode] = @ + 1]
    /\ enumStack' = <<Frame(RootNode)>>
    /\ pc' = "collecting"
    /\ UNCHANGED enumResult
    /\ EnumFrame

\* one iteration of the loop over the properties without the visited tests:
\* every object held is expanded
EnumProperty_noVisited ==
    /\ pc = "collecting"
    /\ Len(enumStack) < 6
    /\ LET f == enumStack[Len(enumStack)]
           props == propertiesOf(enumGraph, f.node)
       IN  /\ f.i <= Len(props)
           /\ IF props[f.i].kind = "enum"
              THEN /\ enumStack' = advance(enumStack,
                          addEnums(f.enums,
                                   <<[name |-> getEnumName(props[f.i].key),
                                      values |-> enumValues(LeafValues[f.node])]>>))
                   /\ UNCHANGED <<enumVisited, enumExpanded>>
              ELSE /\ enumVisited' = enumVisited \cup {props[f.i].to}
                   /\ enumExpanded' = [enumExpanded EXCEPT ![props[f.i].to] = @ + 1]
                   /\ enumStack' = Append(enumStack, Frame(props[f.i].to))
    /\ UNCHANGED <<pc, enumResult>>
    /\ EnumFrame

\* one iteration of the loop over the properties: a string enum is pushed
\* unless its name is there; an object, or the items object of an array,
\* that is not visited is the schema of a recursive call, which tests
\* visited again, adds the object and starts its own loop
EnumProperty ==
    /\ pc = "collecting"
    /\ LET f == enumStack[Len(enumStack)]
           props == propertiesOf(enumGraph, f.node)
       IN  /\ f.i <= Len(props)
           /\ IF props[f.i].kind = "enum"
              THEN /\ enumStack' = advance(enumStack,
                          addEnums(f.enums,
                                   <<[name |-> getEnumName(props[f.i].key),
                                      values |-> enumValues(LeafValues[f.node])]>>))
                   /\ UNCHANGED <<enumVisited, enumExpanded>>
              ELSE IF props[f.i].to \notin enumVisited
              THEN IF props[f.i].to \in enumVisited
                   THEN /\ enumStack' = advance(enumStack, f.enums)
                        /\ UNCHANGED <<enumVisited, enumExpanded>>
                   ELSE /\ enumVisited' = enumVisited \cup {props[f.i].to}
                        /\ enumExpanded' =
                               [enumExpanded EXCEPT ![props[f.i].to] = @ + 1]
                        /\ enumStack' = Append(enumStack, Frame(props[f.i].to))
              ELSE /\ enumStack' = advance(enumStack, f.enums)
                   /\ UNCHANGED <<enumVisited, enumExpanded>>
    /\ UNCHANGED <<pc, enumResult>>
    /\ EnumFrame

\* the loop of the innermost call is over: its enums are returned, to the
\* caller, which pushes those whose names it has not, or as the result
EnumReturn ==
    /\ pc = "collecting"
    /\ LET f == enumStack[Len(enumStack)]
           callers == SubSeq(enumStack, 1, Len(enumStack) - 1)
       IN  /\ f.i > Len(propertiesOf(enumGraph, f.node))
           /\ IF callers = <<>>
              THEN /\ enumStack' = <<>>
                   /\ enumResult' = <<f.enums>>
                   /\ pc' = "done"
              ELSE /\ enumStack' =
                         advance(callers,
                                 addEnums(callers[Len(callers)].enums, f.enums))
                   /\ UNCHANGED <<enumResult, pc>>
    /\ UNCHANGED <<enumVisited, enumExpanded>>
    /\ EnumFrame

NextEnums == EnumCall \/ EnumProperty \/ EnumReturn

\* the call is synchronous: a step that can be taken is taken
SpecEnums == InitEnums /\ [][NextEnums]_vars /\ WF_vars(NextEnums)

\* C22: a call of collectEnumsForTemplate returns, and it gets past the
\* visited test at most once for every schema object, also for an object
\* held by several objects or lying on a cycle
C22_EnumsTerminate ==
    /\ [](\A n \in DOMAIN enumExpanded : enumExpanded[n] <= 1)
    /\ [](\A n \in DOMAIN enumExpanded : enumExpanded[n] = 1 <=> n \in enumVisited)
    /\ <>(pc = "done" /\ enumResult # <<>>)

\* C22 witness: the call has returned an enum from a graph in which an
\* object expanded is held by two objects expanded and the root lies on a
\* cycle
C22_Witness ==
    /\ pc = "done"
    /\ enumResult # <<>>
    /\ enumResult[1] # <<>>
    /\ \E e, f \in enumGraph.edges :
          /\ e # f
          /\ e.to = f.to
          /\ {e.from, f.from} \subseteq enumVisited
          /\ enumExpanded[e.to] = 1
    /\ \E e \in enumGraph.edges :
          e.to = RootNode /\ e.from # RootNode /\ e.from \in enumVisited

====
